---- MODULE Spec2Model ----
(***************************************************************************)
(* Luna WhatsApp backend: webhook, per-user lock, guard-rail dispatcher    *)
(* (_process_message_async) and the tool side of the Assistant run.        *)
(*                                                                         *)
(* Texts are sequences of words; the word-level helpers below follow the   *)
(* string helpers of routes/whatsapp.py on that representation.            *)
(* Time is counted in seconds.                                             *)
(***************************************************************************)
EXTENDS Naturals, Integers, Sequences, FiniteSets, TLC

VARIABLES
    now,         \* the wall clock read by datetime.utcnow() and func.now()
    ticks,       \* how many times the clock has advanced
    users,       \* table "users": row i has id i
    messages,    \* table "messages": for each user id, the rows of that user in insertion order
    tasks,       \* background tasks started by asyncio.create_task, in creation order
    USER_LOCKS,  \* _USER_LOCKS: key -> id of the task holding the lock (0 = unlocked)
    outbox,      \* calls made to the Uazapi gateway: for each task, those it made, in order
    responses,   \* HTTP responses returned by webhook_post, in order
    runs         \* calls of ask_assistant followed step by step: task id -> state of the call

vars == <<now, ticks, users, messages, tasks, USER_LOCKS, outbox, responses, runs>>

(***************************************************************************)
(* Bounds of the model                                                     *)
(***************************************************************************)
MaxEvents == 2        \* webhook deliveries (Spec)
MaxTicks == 1         \* advances of the clock
MaxToolCalls == 1     \* tool calls executed, over all runs
MaxSendFailures == 1  \* gateway calls that fail
MaxBurst == 3         \* webhook deliveries (SpecBurst)
MaxStored == 2        \* webhook deliveries (SpecStored)
MaxThread == 3        \* webhook deliveries (SpecThread)
MaxPosts == 2         \* requests to the webhook (SpecHook)
MaxRounds == 2        \* requires_action reported to one call of ask_assistant
MaxPass == 2          \* events delivered in SpecPass
MaxLive == 2          \* events delivered in SpecLive
MaxRace == 2          \* requests received in SpecRace

(***************************************************************************)
(* Inputs                                                                  *)
(***************************************************************************)
Phones == {"5531900000001", "5531900000002"}

\* Inbound texts (None = no text extracted; the event is then a media event).
None == <<>>
Texts == {<<"Sim">>, <<"Não">>}
MediaTypes == {"image"}
PushNames == {None}

\* How much the clock may advance in one step: the dedup window and the
\* window of the funnel state.
TickSteps == {5, 30 * 60}

(***************************************************************************)
(* Configuration (environment variables, with the values of a deployment   *)
(* that has the funnel configured)                                         *)
(***************************************************************************)
LUNA_MENU_YES == <<"Sim", "pode", "continuar">>
LUNA_MENU_NO == <<"Não", "encerrar", "contato">>
LUNA_MENU_TEXT == <<"menu_text">>
LUNA_VIDEO_URL == <<"video_url">>
LUNA_VIDEO_AFTER_TEXT == None
LUNA_END_TEXT == None
LUNA_STRICT_ASSISTANT == FALSE
HANDOFF_NOTIFY_NUMBERS == <<"5531988880000">>
ASK_NAME_TEMPLATE == <<"qual", "nome">>
NAME_RETRY_TEMPLATE == <<"só", "o", "primeiro", "nome">>

(***************************************************************************)
(* String helpers                                                          *)
(***************************************************************************)
Range(s) == {s[i] : i \in DOMAIN s}

\* _only_digits on the identifiers of the model.
OnlyDigits(s) ==
    CASE s = "+5531900000001" -> "5531900000001"
      [] s = "" -> ""
      [] OTHER -> s

\* lower() followed by _strip_accents, word by word.
NormWord(w) ==
    CASE w = "Sim" -> "sim"
      [] w \in {"Não", "não", "Nao"} -> "nao"
      [] w = "Ana" -> "ana"
      [] w = "Agora" -> "agora"
      [] w = "Olá" -> "ola"
      [] w = "só" -> "so"
      [] w = "é" -> "e"
      [] OTHER -> w

\* _normalize
Normalize(s) == [i \in DOMAIN s |-> NormWord(s[i])]

\* str.title(), word by word.
TitleWord(w) ==
    CASE w \in {"ana", "Ana"} -> "Ana"
      [] w \in {"sou", "Sou"} -> "Sou"
      [] OTHER -> w

\* Words made of letters only (the matches of [A-Za-zÀ-ÖØ-öø-ÿ]+).
LetterWords ==
    {"Sim", "sim", "Não", "não", "nao", "Ana", "ana", "sou", "Sou", "agora",
     "pode", "continuar", "encerrar", "contato", "me", "chamo", "meu", "nome", "é", "e"}

\* Number of characters of a word.
CharLen(w) ==
    CASE w \in {"é", "e", "o"} -> 1
      [] w \in {"me", "só"} -> 2
      [] OTHER -> 3

\* len(" ".join(tokens)) compared with 3: only names shorter than 3 matter.
JoinedLen(tokens) ==
    IF Len(tokens) = 0 THEN 0
    ELSE IF Len(tokens) = 1 THEN CharLen(tokens[1])
    ELSE CharLen(tokens[1]) + 1 + CharLen(tokens[2])

POSITIVE_WORDS ==
    {<<"sim">>, <<"ok">>, <<"okay">>, <<"claro">>, <<"perfeito">>, <<"pode">>,
     <<"pode", "sim">>, <<"pode", "continuar">>, <<"vamos">>, <<"bora">>,
     <<"manda">>, <<"mande">>, <<"envia">>, <<"enviar">>, <<"segue">>,
     <<"segue", "sim">>, <<"quero">>, <<"tenho", "interesse">>, <<"interessa">>,
     <<"top">>, <<"show">>, <<"positivo">>, <<"agora">>, <<"mais", "tarde">>,
     <<"sim", "pode">>, <<"pode", "mandar">>, <<"pode", "enviar">>,
     <<"pode", "mostrar">>}

NEGATIVE_WORDS ==
    {<<"nao">>, <<"não">>, <<"nao", "obrigado">>, <<"não", "obrigado">>,
     <<"pode", "encerrar">>, <<"parar">>, <<"cancelar">>, <<"encerre">>}

\* The six emoji of _POSITIVE_EMOJIS, written by name.
POSITIVE_EMOJIS ==
    {":thumbsup:", ":ok_hand:", ":white_check_mark:", ":heavy_check_mark:", ":v:",
     ":handshake:"}

STOPWORDS_GREET ==
    {"oi", "olá", "ola", "blz", "beleza", "eai", "opa", "oie", "boa", "bom", "tarde",
     "noite", "dia", "tudo", "bem", "td", "tmj", "valeu", "vlw", "obg", "obrigado",
     "obrigada", "kkk", "haha", "rs", "agora", "depois", "mais", "tarde", "sim",
     "nao", "não", "okay", "ok", "okey"}

\* _is_positive_reply
IsPositiveReply(text) ==
    /\ text # None
    /\ LET t == Normalize(text) IN
          \/ t \in {Normalize(LUNA_MENU_YES), <<"sim">>}
          \/ t \in POSITIVE_WORDS
          \/ Range(text) \cap POSITIVE_EMOJIS # {}
          \/ Range(t) \cap {"video", "vídeo"} # {}
          \/ t = <<"0">>

\* _is_negative_reply
IsNegativeReply(text) ==
    /\ text # None
    /\ LET t == Normalize(text) IN
          \/ t \in {Normalize(LUNA_MENU_NO), <<"nao">>, <<"não">>}
          \/ t \in NEGATIVE_WORDS
          \/ t = <<"1">>

\* _wants_now
WantsNow(text) ==
    /\ text # None
    /\ LET t == Normalize(text) IN
          \/ "agora" \in Range(t)
          \/ t \in {<<"sim">>, <<"ok">>, <<"okay">>, <<"claro">>, <<"perfeito">>,
                    <<"pode">>, <<"pode", "sim">>}

\* _wants_later
WantsLater(text) ==
    /\ text # None
    /\ LET t == Normalize(text) IN
          \/ Range(t) \cap {"depois", "amanha", "amanhã"} # {}
          \/ \E i \in DOMAIN t : i + 1 \in DOMAIN t /\ t[i] = "mais" /\ t[i + 1] = "tarde"

\* _tokenize_words
TokenizeWords(s) == SelectSeq(s, LAMBDA w : w \in LetterWords)

\* _sanitize_name (None when the candidate is rejected)
SanitizeName(raw) ==
    LET tokens == SelectSeq(TokenizeWords(raw), LAMBDA w : NormWord(w) \notin STOPWORDS_GREET)
        two == SubSeq(tokens, 1, IF Len(tokens) < 2 THEN Len(tokens) ELSE 2)
        name == [i \in DOMAIN two |-> TitleWord(two[i])]
    IN  IF raw = None \/ tokens = <<>> THEN None
        ELSE IF JoinedLen(name) < 3 THEN None
        ELSE name

\* Length of the introducer matched by _NAME_EXPLICIT_RE at position i (0 = no match).
ExplicitAt(text, i) ==
    LET w(k) == IF i + k \in DOMAIN text THEN NormWord(text[i + k]) ELSE ""
    IN  IF w(0) = "meu" /\ w(1) = "nome" /\ w(2) = "e" THEN 3
        ELSE IF w(0) = "me" /\ w(1) = "chamo" THEN 2
        ELSE IF w(0) = "sou" THEN 1
        ELSE 0

\* The longest run of letter words starting at position i (group 1 of the regex).
RECURSIVE LetterRun(_, _)
LetterRun(text, i) ==
    IF i \in DOMAIN text /\ text[i] \in LetterWords
    THEN <<text[i]>> \o LetterRun(text, i + 1)
    ELSE <<>>

\* _extract_name_from_text
ExtractNameFromText(text, in_request) ==
    LET hits == {i \in DOMAIN text :
                    ExplicitAt(text, i) > 0 /\ LetterRun(text, i + ExplicitAt(text, i)) # <<>>}
    IN  IF text = None THEN None
        ELSE IF hits # {}
             THEN LET i == CHOOSE j \in hits : \A k \in hits : j <= k
                  IN  SanitizeName(LetterRun(text, i + ExplicitAt(text, i)))
        ELSE IF in_request THEN SanitizeName(text)
        ELSE None

(***************************************************************************)
(* Assistant replies: sequences of tokens, where a token is a word, a      *)
(* phrase or a tool tag.                                                   *)
(***************************************************************************)
Replies == {<<"Olá">>, <<"Olá", "#tools(menu)">>, <<"#tools(video)">>, <<"#tools(handoff)">>}

\* Group 1 of _TOOL_TAG_RE for a token, split on commas and blanks
\* (<<>> when the token is not matched by the regex: it needs one character
\* at least between the parentheses).
TagContent(tok) ==
    CASE tok = "#tools(menu)" -> <<"menu">>
      [] tok = "#tools(video)" -> <<"video">>
      [] tok = "#tools(handoff)" -> <<"handoff">>
      [] tok = "#tool(enviar_video)" -> <<"enviar_video">>
      [] tok = "#tools(menu, video)" -> <<"menu", "video">>
      [] OTHER -> <<>>

IsToolTag(tok) == TagContent(tok) # <<>>

\* _strip_tool_tags
StripToolTags(text) == SelectSeq(text, LAMBDA tok : ~IsToolTag(tok))

\* _parse_tools_from_tags: only the first tag of the reply is read.
ParseToolsFromTags(reply_text) ==
    LET tagged == {i \in DOMAIN reply_text : IsToolTag(reply_text[i])}
    IN  IF tagged = {} THEN {}
        ELSE LET first == CHOOSE i \in tagged : \A j \in tagged : i <= j
                 parts == Range(TagContent(reply_text[first]))
             IN  (IF parts \cap {"enviar_caixinha_interesse", "menu", "caixinha"} # {}
                     THEN {"menu"} ELSE {})
                 \cup (IF parts \cap {"enviar_video", "video", "vídeo"} # {}
                          THEN {"video"} ELSE {})
                 \cup (IF parts \cap {"enviar_msg", "handoff", "transfer"} # {}
                          THEN {"handoff"} ELSE {})

\* "sub in reply_text.lower()" for the three tool names.
MentionsTool(reply_text, sub) ==
    \E i \in DOMAIN reply_text :
        \/ reply_text[i] = sub
        \/ sub \in Range(TagContent(reply_text[i]))

INVITE_PATTERNS ==
    {"quer ver em 30", "quer ver em 30s", "quer ver em 30 s", "30 seg", "30seg",
     "30 segundos", "trinta segundos", "posso te mostrar", "posso apresentar um case",
     "exemplo objetivo", "te mostro em 30", "posso enviar um exemplo",
     "quer ver um exemplo", "apresentar um case curto"}

\* _looks_like_invite
LooksLikeInvite(reply_text) == Range(Normalize(reply_text)) \cap INVITE_PATTERNS # {}

HANDOFF_PATTERNS ==
    {"vou te colocar em contato", "vou te conectar", "vou te passar para",
     "encaminharei voce ao nosso consultor", "encaminhar voce ao consultor",
     "colocar voce com um consultor", "te coloco com nosso consultor",
     "vou conectar voce com um especialista", "encaminhando para o consultor"}

\* _looks_like_handoff
LooksLikeHandoff(reply_text) ==
    \/ Range(Normalize(reply_text)) \cap HANDOFF_PATTERNS # {}
    \/ MentionsTool(reply_text, "enviar_msg")

\* _parse_tool_hints
ParseToolHints(reply_text) ==
    LET tags == ParseToolsFromTags(reply_text)
    IN  [wants_menu |-> \/ "menu" \in tags
                        \/ MentionsTool(reply_text, "enviar_caixinha_interesse")
                        \/ LooksLikeInvite(reply_text),
         wants_video |-> "video" \in tags \/ MentionsTool(reply_text, "enviar_video"),
         wants_handoff |-> "handoff" \in tags \/ LooksLikeHandoff(reply_text)]

\* _extract_formato: the canonical format named by the text (None when there is none).
ExtractFormato(texto) ==
    LET t == Range(Normalize(texto))
    IN  IF "3d" \in t THEN <<"3d/ia">>
        ELSE IF "institucional" \in t THEN <<"institucional">>
        ELSE IF t \cap {"produto", "produtos"} # {} THEN <<"produto">>
        ELSE IF t \cap {"educativo", "aula", "aulas", "tutorial", "treinamento"} # {}
             THEN <<"educativo">>
        ELSE IF t \cap {"convite", "convites"} # {} THEN <<"convite">>
        ELSE IF t \cap {"homenagem", "tributo"} # {} THEN <<"homenagem">>
        ELSE None

\* _looks_like_format_question
LooksLikeFormatQuestion(texto) ==
    LET t == Range(Normalize(texto))
    IN  \/ t \cap {"qual formato", "formato te interessa", "formato voce"} # {}
        \/ /\ t \cap {"3d", "institucional", "educativo", "produto", "convite", "homenagem"} # {}
           /\ "formato" \in t

(***************************************************************************)
(* The store                                                               *)
(***************************************************************************)
\* Columns of the mapped class Message (models/db_models.py).
MessageColumns ==
    {"id", "user_id", "sender", "content", "media_type", "media_url", "timestamp"}

NoValue == -1

\* getattr(row, column, None)
GetAttr(row, column) == IF column \in DOMAIN row THEN row[column] ELSE NoValue

\* A row of "messages" inserted now (the columns the model reads).
Row(user_id, sender, content, media_type) ==
    [user_id |-> user_id, sender |-> sender, content |-> content,
     media_type |-> media_type, timestamp |-> now]

\* select(User).where(User.phone == phone): the id of the row, 0 when there is none.
UserIdOf(phone) ==
    IF \E i \in DOMAIN users : users[i].phone = phone
    THEN CHOOSE i \in DOMAIN users : users[i].phone = phone
    ELSE 0

Max(S) == CHOOSE x \in S : \A y \in S : y <= x

\* The row selected by order_by(desc(Message.created_at)).limit(1) among the
\* rows of the user at the indices in hits.
Latest(user_id, hits) == messages[user_id][Max(hits)]

\* _has_recent_generic.  Message.created_at is evaluated while the query is
\* built, inside the try block: when the class has no such column the
\* AttributeError is caught and the function returns False.
HasRecentGeneric(user_id, media_type, minutes) ==
    IF "created_at" \notin MessageColumns THEN FALSE
    ELSE LET hits == {i \in DOMAIN messages[user_id] :
                         /\ messages[user_id][i].sender = "assistant"
                         /\ messages[user_id][i].media_type = media_type}
         IN  IF hits = {} THEN FALSE
             ELSE IF GetAttr(Latest(user_id, hits), "created_at") = NoValue THEN FALSE
             ELSE now - GetAttr(Latest(user_id, hits), "created_at") <= minutes * 60

\* _is_probably_duplicate: same try/except around the same column.
IsProbablyDuplicate(user_id, text, msg_type, window_seconds) ==
    IF "created_at" \notin MessageColumns THEN FALSE
    ELSE LET hits == {i \in DOMAIN messages[user_id] : messages[user_id][i].sender = "user"}
         IN  IF hits = {} THEN FALSE
             ELSE /\ Latest(user_id, hits).content = text
                  /\ Latest(user_id, hits).media_type = msg_type
                  /\ now - GetAttr(Latest(user_id, hits), "created_at") <= window_seconds

\* _pushname_candidate
PushnameCandidate(push_name) ==
    LET name == SanitizeName(push_name)
        toks == Normalize(TokenizeWords(name))
    IN  IF name = None \/ toks = <<>> THEN None
        ELSE IF Range(toks) \cap STOPWORDS_GREET # {} THEN None
        ELSE IF Len(toks) = 1 /\ CharLen(toks[1]) <= 2 THEN None
        ELSE name


(***************************************************************************)
(* Outbound actions.  A call to the gateway is recorded in outbox with its *)
(* outcome; g is the outcome (TRUE = delivered, FALSE = the call raised)   *)
(* of the first and of the second gateway call of the step.                *)
(***************************************************************************)
GatewayOutcomes == [1..2 -> BOOLEAN]

\* The gateway accepts every call.
Delivered == [i \in 1..2 |-> TRUE]

\* One call of send_whatsapp_message / send_menu_interesse.
Send(to, type, content, ok, by) ==
    [to |-> to, type |-> type, content |-> content, ok |-> ok, by |-> by]

Nothing == [rows |-> <<>>, sends |-> <<>>]

\* A step that sends one text (a failure is swallowed) and appends one row.
SendTextAndLog(phone, user_id, content, media_type, ok, by) ==
    [rows |-> <<Row(user_id, "assistant", content, media_type)>>,
     sends |-> <<Send(phone, "text", content, ok, by)>>]

\* _enviar_menu: the row is appended only when the gateway call returned.
EnviarMenu(phone, user_id, g, by) ==
    IF LUNA_MENU_TEXT = None THEN Nothing
    ELSE [rows |-> IF g[1] THEN <<Row(user_id, "assistant", LUNA_MENU_TEXT, "menu")>> ELSE <<>>,
          sends |-> <<Send(phone, "menu", LUNA_MENU_TEXT, g[1], by)>>]

\* _enviar_video (LUNA_VIDEO_AFTER_TEXT is empty: lines 715-718 and 728-734 do nothing).
\* On a failure of the native send the link goes out as a text and a "text" row is appended.
EnviarVideo(phone, user_id, g, by) ==
    IF LUNA_VIDEO_URL = None
    THEN [rows |-> <<>>, sends |-> <<Send(phone, "text", <<"Desculpe">>, g[1], by)>>]
    ELSE IF g[1]
    THEN [rows |-> <<Row(user_id, "assistant", LUNA_VIDEO_URL, "video")>>,
          sends |-> <<Send(phone, "media", LUNA_VIDEO_URL, TRUE, by)>>]
    ELSE [rows |-> <<Row(user_id, "assistant", LUNA_VIDEO_URL, "text")>>,
          sends |-> <<Send(phone, "media", LUNA_VIDEO_URL, FALSE, by),
                      Send(phone, "text", LUNA_VIDEO_URL, g[2], by)>>]

\* The alert sent to the consultants about a lead.
HandoffAlert(phone) == <<"Novo lead", OnlyDigits(phone)>>

\* _notify_consultants
NotifyConsultants(phone, user_id, ok, by) ==
    IF HANDOFF_NOTIFY_NUMBERS = <<>> THEN Nothing
    ELSE [rows |-> <<Row(user_id, "assistant", HandoffAlert(phone), "handoff")>>,
          sends |-> [i \in DOMAIN HANDOFF_NOTIFY_NUMBERS |->
                        Send(HANDOFF_NOTIFY_NUMBERS[i], "text", HandoffAlert(phone), ok, by)]]

\* _send_handoff_offer
SendHandoffOffer(phone, user_id, formato, ok, by) ==
    SendTextAndLog(phone, user_id, <<"handoff_offer">> \o formato, "handoff_offer", ok, by)

Then(a, b) == [rows |-> a.rows \o b.rows, sends |-> a.sends \o b.sends]

(***************************************************************************)
(* Inference of the funnel state (whatsapp.py lines 782-786)               *)
(***************************************************************************)
RecentFlags(user_id) ==
    [menu |-> HasRecentGeneric(user_id, "menu", 30),
     video |-> HasRecentGeneric(user_id, "video", 30),
     handoff |-> HasRecentGeneric(user_id, "handoff", 30),
     handoff_offer |-> HasRecentGeneric(user_id, "handoff_offer", 30),
     name_request |-> HasRecentGeneric(user_id, "name_request", 30)]

NoFlags ==
    [menu |-> FALSE, video |-> FALSE, handoff |-> FALSE, handoff_offer |-> FALSE,
     name_request |-> FALSE]

(***************************************************************************)
(* Guard rails before the Assistant (whatsapp.py lines 788-875 and         *)
(* 957-964): what the pipeline of task t does for a user whose name on     *)
(* file is name0, given the flags.  next = "ai" when the text goes on to   *)
(* the Assistant.                                                          *)
(***************************************************************************)
Outcome(name, eff, next) == [name |-> name, rows |-> eff.rows, sends |-> eff.sends, next |-> next]

GuardRails(t, user_id, name0, flags, g) ==
    LET phone == tasks[t].phone
        text == tasks[t].text
        isText == tasks[t].msg_type = "text" /\ text # None
        end_text == IF LUNA_END_TEXT # None THEN LUNA_END_TEXT ELSE <<"Tudo bem!">>
        inReq == ExtractNameFromText(text, TRUE)
        explicit == ExtractNameFromText(text, FALSE)
        \* 0.2: the name is captured from an explicit pattern when none is on file
        captured == isText /\ name0 = None /\ explicit # None
        name2 == IF captured THEN explicit ELSE name0
        capture == IF captured
                   THEN [rows |-> <<Row(user_id, "assistant", <<"name_captured">> \o explicit,
                                        "name_captured")>>,
                         sends |-> <<>>]
                   ELSE Nothing
    IN  IF isText /\ flags.menu /\ IsNegativeReply(text)
        THEN Outcome(name0, SendTextAndLog(phone, user_id, end_text, "text", g[1], t), "done")
        ELSE IF isText /\ flags.menu /\ IsPositiveReply(text) /\ ~flags.video
        THEN Outcome(name0, EnviarVideo(phone, user_id, g, t), "done")
        ELSE IF isText /\ flags.name_request /\ ~flags.handoff
        THEN IF inReq # None
             THEN Outcome(inReq,
                          Then(SendTextAndLog(phone, user_id, <<"name_saved">> \o inReq, "text", g[1], t),
                               NotifyConsultants(phone, user_id, g[2], t)),
                          "done")
             ELSE Outcome(name0,
                          SendTextAndLog(phone, user_id, NAME_RETRY_TEMPLATE, "name_request", g[1], t),
                          "done")
        ELSE IF isText /\ flags.handoff_offer /\ ~flags.handoff /\ WantsNow(text)
        THEN IF name2 = None
             THEN Outcome(name2,
                          Then(capture,
                               SendTextAndLog(phone, user_id, ASK_NAME_TEMPLATE, "name_request", g[1], t)),
                          "done")
             ELSE Outcome(name2,
                          Then(capture,
                               Then(SendTextAndLog(phone, user_id, <<"handoff_confirm">>, "text", g[1], t),
                                    NotifyConsultants(phone, user_id, g[2], t))),
                          "done")
        ELSE IF isText /\ flags.handoff_offer /\ ~flags.handoff /\ WantsLater(text)
        THEN Outcome(name2,
                     Then(capture, SendTextAndLog(phone, user_id, <<"handoff_later">>, "text", g[1], t)),
                     "done")
        ELSE IF isText
        THEN Outcome(name2, capture, "ai")
        ELSE Outcome(name0,
                     SendTextAndLog(phone, user_id, <<"Arquivo recebido">>, "text", g[1], t),
                     "done")

(***************************************************************************)
(* Handling of the Assistant's reply (whatsapp.py lines 909-955)           *)
(***************************************************************************)
\* A handling that logs the text only when the gateway took it.
PostAILogsOnDelivery(t, reply, g) ==
    [rows |-> IF g[1] THEN <<Row(tasks[t].user_id, "assistant", reply, "text")>> ELSE <<>>,
     sends |-> <<Send(tasks[t].phone, "text", reply, g[1], t)>>]

PostAI(t, reply, g) ==
    LET phone == tasks[t].phone
        text == tasks[t].text
        user_id == tasks[t].user_id
        flags == tasks[t].flags
        user_formato == ExtractFormato(text)
        reply_text == IF user_formato # None /\ LooksLikeFormatQuestion(reply)
                      THEN <<"Perfeito, anotei">> \o user_formato
                      ELSE reply
        hints == ParseToolHints(reply)
        stripped == StripToolTags(reply_text)
        clean_text == IF stripped = <<>> THEN <<"Certo!">> ELSE stripped
    IN  IF (hints.wants_menu \/ LooksLikeInvite(reply)) /\ ~flags.menu
        THEN EnviarMenu(phone, user_id, g, t)
        ELSE IF hints.wants_video /\ ~flags.video
        THEN EnviarVideo(phone, user_id, g, t)
        ELSE IF (hints.wants_handoff \/ user_formato # None)
                /\ ~(flags.handoff \/ flags.handoff_offer)
        THEN SendHandoffOffer(phone, user_id, user_formato, g[1], t)
        ELSE IF ~LUNA_STRICT_ASSISTANT /\ IsPositiveReply(text) /\ flags.menu /\ ~flags.video
        THEN EnviarVideo(phone, user_id, g, t)
        ELSE IF flags.menu /\ LooksLikeInvite(reply)
        THEN Nothing
        ELSE SendTextAndLog(phone, user_id, clean_text, "text", g[1], t)

(***************************************************************************)
(* Tools run by ask_assistant on requires_action (openai_service.py)       *)
(***************************************************************************)
ToolNames == {"enviar_caixinha_interesse", "enviar_video", "enviar_msg"}

\* _execute_tool_call: the gateway calls made for one tool call whose
\* "phone" argument is phone_arg.
ExecuteToolCall(name, phone_arg, ok, by) ==
    LET phone == OnlyDigits(phone_arg)
    IN  IF name \in {"enviar_caixinha_interesse", "menu", "caixinha"}
        THEN IF phone = "" THEN <<>> ELSE <<Send(phone, "menu", LUNA_MENU_TEXT, ok, by)>>
        ELSE IF name \in {"enviar_video", "video", "vídeo"}
        THEN IF phone = "" \/ LUNA_VIDEO_URL = None THEN <<>>
             ELSE <<Send(phone, "media", LUNA_VIDEO_URL, ok, by)>>
        ELSE IF name \in {"enviar_msg", "handoff", "transfer"}
        THEN [i \in DOMAIN HANDOFF_NOTIFY_NUMBERS |->
                 Send(HANDOFF_NOTIFY_NUMBERS[i], "text", HandoffAlert(phone), ok, by)]
        ELSE <<>>

Init ==
    /\ now = 0
    /\ ticks = 0
    /\ users = <<>>
    /\ messages = <<>>
    /\ tasks = <<>>
    /\ USER_LOCKS = <<>>
    /\ outbox = <<>>
    /\ responses = <<>>
    /\ runs = <<>>

\* Time passes.
Tick(d) ==
    /\ ticks < MaxTicks
    /\ now' = now + d
    /\ ticks' = ticks + 1
    /\ UNCHANGED <<users, messages, tasks, USER_LOCKS, outbox, responses, runs>>

\* Number of gateway calls that failed, in the outbox o.
RECURSIVE FailedUpTo(_, _)
FailedUpTo(o, n) ==
    IF n = 0 THEN 0
    ELSE Cardinality({i \in DOMAIN o[n] : ~o[n][i].ok}) + FailedUpTo(o, n - 1)

Failed(o) == FailedUpTo(o, Len(o))

\* session.add of the rows for the user, and commit.
Insert(table, user_id, rows) ==
    [u \in DOMAIN table \cup {user_id} |->
        IF u = user_id
        THEN (IF u \in DOMAIN table THEN table[u] ELSE <<>>) \o rows
        ELSE table[u]]

\* Number of tool calls executed so far.
RECURSIVE ToolCallsMade(_)
ToolCallsMade(n) == IF n = 0 THEN 0 ELSE tasks[n].rounds + ToolCallsMade(n - 1)

Response(status, note) == [status |-> status, note |-> note]

NewTask(phone, msg_type, text, push_name) ==
    [phone |-> phone, msg_type |-> msg_type, text |-> text, push_name |-> push_name,
     pc |-> "queued", user_id |-> 0, flags |-> NoFlags, ai |-> 0, rounds |-> 0,
     rows |-> <<>>, thread |-> 0, created |-> FALSE]

\* The users table after the lookup-or-insert done by webhook_post (lines
\* 1001-1014) and again by the pipeline (lines 765-780).
EnsureUser(phone, push_name) ==
    LET id == UserIdOf(phone)
        pn == PushnameCandidate(push_name)
    IN  IF id = 0
        THEN Append(users, [phone |-> phone, name |-> pn, thread_id |-> 0])
        ELSE IF users[id].name = None /\ pn # None
        THEN [users EXCEPT ![id].name = pn]
        ELSE users

\* A handler that answers only once no pipeline holds a lock.
WebhookWaits(phone, msg_type, text, push_name) ==
    /\ \A k \in DOMAIN USER_LOCKS : USER_LOCKS[k] = 0
    /\ users' = EnsureUser(phone, push_name)
    /\ \E user_id \in {i \in DOMAIN users' : users'[i].phone = phone},
          content \in {IF msg_type = "text" THEN text ELSE None} :
          IF IsProbablyDuplicate(user_id, content, msg_type, 5)
          THEN /\ responses' = Append(responses, Response(200, "duplicate_dropped"))
               /\ UNCHANGED <<messages, tasks, outbox>>
          ELSE /\ messages' = Insert(messages, user_id, <<Row(user_id, "user", content, msg_type)>>)
               /\ tasks' = Append(tasks, NewTask(phone, msg_type, text, push_name))
               /\ outbox' = Append(outbox, <<>>)
               /\ responses' = Append(responses, Response(200, ""))
    /\ UNCHANGED <<now, ticks, USER_LOCKS, runs>>

\* webhook_post for an authorised request whose payload yields (phone, msg_type, text).
Webhook(phone, msg_type, text, push_name) ==
    /\ users' = EnsureUser(phone, push_name)
    /\ \E user_id \in {i \in DOMAIN users' : users'[i].phone = phone},
          content \in {IF msg_type = "text" THEN text ELSE None} :
          IF IsProbablyDuplicate(user_id, content, msg_type, 5)
          THEN /\ responses' = Append(responses, Response(200, "duplicate_dropped"))
               /\ UNCHANGED <<messages, tasks, outbox>>
          ELSE /\ messages' = Insert(messages, user_id, <<Row(user_id, "user", content, msg_type)>>)
               /\ tasks' = Append(tasks, NewTask(phone, msg_type, text, push_name))
               /\ outbox' = Append(outbox, <<>>)
               /\ responses' = Append(responses, Response(200, ""))
    /\ UNCHANGED <<now, ticks, USER_LOCKS, runs>>

\* _get_user_lock
LockKey(phone) == OnlyDigits(phone)

\* A registry that hands out a fresh, unlocked lock on every call.
LockHolderFresh(key) == 0

\* The task holding the lock of the key (0 when it is free or not yet created).
LockHolder(key) == IF key \in DOMAIN USER_LOCKS THEN USER_LOCKS[key] ELSE 0

\* async with _get_user_lock(phone): the lock is created on first use and
\* granted in the order in which the tasks asked for it.
Acquire(t) ==
    /\ tasks[t].pc = "queued"
    /\ LockHolder(LockKey(tasks[t].phone)) = 0
    /\ \A s \in 1..(t - 1) :
          tasks[s].pc = "queued" => LockKey(tasks[s].phone) # LockKey(tasks[t].phone)
    /\ USER_LOCKS' = [k \in DOMAIN USER_LOCKS \cup {LockKey(tasks[t].phone)} |->
                         IF k = LockKey(tasks[t].phone) THEN t ELSE USER_LOCKS[k]]
    /\ tasks' = [tasks EXCEPT ![t].pc = "locked"]
    /\ UNCHANGED <<now, ticks, users, messages, outbox, responses, runs>>

Release(t) == [USER_LOCKS EXCEPT ![LockKey(tasks[t].phone)] = 0]

\* _create_thread: the provider opens a conversation and returns its id, which
\* no conversation opened before has (conversations are numbered in the order
\* in which they are opened).
CreateThread == 1 + Cardinality({s \in DOMAIN tasks : tasks[s].created})

\* A lookup that opens a conversation whatever the user's row holds.
ThreadOfAlwaysNew(row) == CreateThread

\* get_or_create_thread: the conversation on the user's row, or a new one when
\* the row has none.
ThreadOf(row) == IF row.thread_id # 0 THEN row.thread_id ELSE CreateThread

\* _process_message_async from the load of the user to the call of
\* ask_assistant (or to its return when a guard rail answers).
Dispatch(t, g) ==
    /\ tasks[t].pc = "locked"
    /\ \E users1 \in {EnsureUser(tasks[t].phone, tasks[t].push_name)} :
       \E user_id \in {i \in DOMAIN users1 : users1[i].phone = tasks[t].phone} :
       \E flags \in {RecentFlags(user_id)} :
       \E out \in {GuardRails(t, user_id, users1[user_id].name, flags, g)} :
          /\ users' = [users1 EXCEPT ![user_id].name = out.name,
                                     ![user_id].thread_id =
                                         IF out.next = "ai" THEN ThreadOf(users1[user_id])
                                         ELSE @]
          /\ messages' = Insert(messages, user_id, out.rows)
          /\ outbox' = [outbox EXCEPT ![t] = @ \o out.sends]
          /\ tasks' = [tasks EXCEPT ![t].pc = out.next,
                                    ![t].user_id = user_id,
                                    ![t].flags = flags,
                                    ![t].ai = IF out.next = "ai" THEN 1 ELSE 0,
                                    ![t].thread = IF out.next = "ai" THEN ThreadOf(users1[user_id])
                                                  ELSE 0,
                                    ![t].created = out.next = "ai" /\ users1[user_id].thread_id = 0,
                                    ![t].rows = [i \in DOMAIN out.rows |-> out.rows[i].media_type]]
          /\ USER_LOCKS' = IF out.next = "done" THEN Release(t) ELSE USER_LOCKS
    /\ Failed(outbox') <= MaxSendFailures
    /\ UNCHANGED <<now, ticks, responses, runs>>

\* The same, when the text goes on to the Assistant, the user has no
\* conversation yet and _create_thread raises: what was committed stays, and
\* the pipeline ends in its "except Exception" (lines 965-967).
DispatchThreadFails(t) ==
    /\ tasks[t].pc = "locked"
    /\ \E users1 \in {EnsureUser(tasks[t].phone, tasks[t].push_name)} :
       \E user_id \in {i \in DOMAIN users1 : users1[i].phone = tasks[t].phone} :
       \E flags \in {RecentFlags(user_id)} :
       \E out \in {GuardRails(t, user_id, users1[user_id].name, flags, Delivered)} :
          /\ out.next = "ai"
          /\ users1[user_id].thread_id = 0
          /\ users' = [users1 EXCEPT ![user_id].name = out.name]
          /\ messages' = Insert(messages, user_id, out.rows)
          /\ tasks' = [tasks EXCEPT ![t].pc = "done",
                                    ![t].user_id = user_id,
                                    ![t].flags = flags,
                                    ![t].rows = [i \in DOMAIN out.rows |-> out.rows[i].media_type]]
          /\ USER_LOCKS' = Release(t)
    /\ UNCHANGED <<now, ticks, outbox, responses, runs>>

\* ask_assistant, requires_action: one tool call is executed.
AITool(t, name, ok) ==
    /\ tasks[t].pc = "ai"
    /\ ToolCallsMade(Len(tasks)) < MaxToolCalls
    /\ outbox' = [outbox EXCEPT ![t] = @ \o ExecuteToolCall(name, OnlyDigits(tasks[t].phone), ok, t)]
    /\ Failed(outbox') <= MaxSendFailures
    /\ tasks' = [tasks EXCEPT ![t].rounds = @ + 1]
    /\ UNCHANGED <<now, ticks, users, messages, USER_LOCKS, responses, runs>>

\* A pipeline that a failed gateway call leaves by an exception nobody
\* catches: it ends where it is, inside "async with", and the lock stays taken.
FinishRaises(t, reply, g) ==
    /\ tasks[t].pc = "ai"
    /\ \E eff \in {PostAI(t, reply, g)} :
          /\ messages' = Insert(messages, tasks[t].user_id, eff.rows)
          /\ outbox' = [outbox EXCEPT ![t] = @ \o eff.sends]
          /\ tasks' = [tasks EXCEPT ![t].pc = "done",
                                    ![t].rows = @ \o [i \in DOMAIN eff.rows |-> eff.rows[i].media_type]]
          /\ USER_LOCKS' = IF \E i \in DOMAIN eff.sends : ~eff.sends[i].ok
                           THEN USER_LOCKS ELSE Release(t)
    /\ Failed(outbox') <= MaxSendFailures
    /\ UNCHANGED <<now, ticks, users, responses, runs>>

\* ask_assistant returns reply; the pipeline handles it and ends.
Finish(t, reply, g) ==
    /\ tasks[t].pc = "ai"
    /\ \E eff \in {PostAI(t, reply, g)} :
          /\ messages' = Insert(messages, tasks[t].user_id, eff.rows)
          /\ outbox' = [outbox EXCEPT ![t] = @ \o eff.sends]
          /\ tasks' = [tasks EXCEPT ![t].pc = "done",
                                    ![t].rows = @ \o [i \in DOMAIN eff.rows |-> eff.rows[i].media_type]]
    /\ USER_LOCKS' = Release(t)
    /\ Failed(outbox') <= MaxSendFailures
    /\ UNCHANGED <<now, ticks, users, responses, runs>>

Next ==
    \/ \E d \in TickSteps : Tick(d)
    \/ /\ Len(responses) < MaxEvents
       /\ \E p \in Phones, pn \in PushNames :
             \/ \E text \in Texts : Webhook(p, "text", text, pn)
             \/ \E mt \in MediaTypes : Webhook(p, mt, None, pn)
    \/ \E t \in DOMAIN tasks : Acquire(t)
    \/ \E t \in DOMAIN tasks, g \in GatewayOutcomes : Dispatch(t, g)
    \/ \E t \in DOMAIN tasks, name \in ToolNames, ok \in BOOLEAN : AITool(t, name, ok)
    \/ \E t \in DOMAIN tasks, reply \in Replies, g \in GatewayOutcomes : Finish(t, reply, g)

Spec == Init /\ [][Next]_vars

(***************************************************************************)
(* Texts and files of one participant over a gateway that may fail, with   *)
(* an Assistant that runs a tool and answers with a text or with the       *)
(* video, under the scheduling of the event loop.                          *)
(***************************************************************************)
LivePhone == "5531900000001"
LiveTexts == {<<"Sim">>}
LiveTools == {"enviar_video"}
LiveReplies == {<<"Olá">>, <<"#tools(video)">>}

NextLive ==
    \/ /\ Len(responses) < MaxLive
       /\ \/ \E text \in LiveTexts : Webhook(LivePhone, "text", text, None)
          \/ \E mt \in MediaTypes : Webhook(LivePhone, mt, None, None)
    \/ \E t \in DOMAIN tasks : Acquire(t)
    \/ \E t \in DOMAIN tasks, g \in GatewayOutcomes : Dispatch(t, g)
    \/ \E t \in DOMAIN tasks, name \in LiveTools, ok \in BOOLEAN : AITool(t, name, ok)
    \/ \E t \in DOMAIN tasks, reply \in LiveReplies, g \in GatewayOutcomes : Finish(t, reply, g)

\* The event loop runs every task that can run: a task waiting for a free
\* lock gets it (asyncio.Lock wakes its waiters in order), a task holding the
\* lock goes on, and the call of the Assistant returns.
Fairness ==
    \A t \in 1..MaxLive :
        /\ WF_vars(t \in DOMAIN tasks /\ Acquire(t))
        /\ WF_vars(t \in DOMAIN tasks /\ \E g \in GatewayOutcomes : Dispatch(t, g))
        /\ WF_vars(t \in DOMAIN tasks
                      /\ \E reply \in LiveReplies, g \in GatewayOutcomes : Finish(t, reply, g))

SpecLive == Init /\ [][NextLive]_vars /\ Fairness

(***************************************************************************)
(* A burst of affirmative texts over a gateway that delivers every call,   *)
(* with an Assistant that answers with the menu or with the video.         *)
(***************************************************************************)
BurstTexts == {<<"Sim">>, <<"ok">>}
BurstReplies == {<<"Olá", "#tools(menu)">>, <<"#tools(video)">>}

NextBurst ==
    \/ /\ Len(responses) < MaxBurst
       /\ \E p \in Phones, text \in BurstTexts : Webhook(p, "text", text, None)
    \/ \E t \in DOMAIN tasks : Acquire(t)
    \/ \E t \in DOMAIN tasks : Dispatch(t, Delivered)
    \/ \E t \in DOMAIN tasks, reply \in BurstReplies : Finish(t, reply, Delivered)

SpecBurst == Init /\ [][NextBurst]_vars

(***************************************************************************)
(* A process started on a store that already holds a conversation: the     *)
(* tables outlive the process (db.py, DATABASE_URL).  The participant was  *)
(* offered the handoff and asked for a name at time 0, and has no name on  *)
(* file.                                                                   *)
(***************************************************************************)
StoredPhone == "5531900000001"
StoredTexts == {<<"Ana">>, <<"Sim">>, <<"sou", "Ana">>}

InitStored ==
    /\ now = 0
    /\ ticks = 0
    /\ users = <<[phone |-> StoredPhone, name |-> None, thread_id |-> 0]>>
    /\ messages = <<<<Row(1, "user", <<"Sim">>, "text"),
                      Row(1, "assistant", <<"handoff_offer">>, "handoff_offer"),
                      Row(1, "user", <<"Sim">>, "text"),
                      Row(1, "assistant", ASK_NAME_TEMPLATE, "name_request")>>>>
    /\ tasks = <<>>
    /\ USER_LOCKS = <<>>
    /\ outbox = <<>>
    /\ responses = <<>>
    /\ runs = <<>>

NextStored ==
    \/ \E d \in TickSteps : Tick(d)
    \/ /\ Len(responses) < MaxStored
       /\ \E text \in StoredTexts : Webhook(StoredPhone, "text", text, None)
    \/ \E t \in DOMAIN tasks : Acquire(t)
    \/ \E t \in DOMAIN tasks, g \in GatewayOutcomes : Dispatch(t, g)
    \/ \E t \in DOMAIN tasks, reply \in Replies, g \in GatewayOutcomes : Finish(t, reply, g)

SpecStored == InitStored /\ [][NextStored]_vars

(***************************************************************************)
(* Texts of two participants that all go on to the Assistant, with a       *)
(* provider that may fail to open a conversation.                          *)
(***************************************************************************)
ThreadTexts == {<<"Olá">>, <<"oi">>}
ThreadReplies == {<<"Olá">>}

NextThread ==
    \/ /\ Len(responses) < MaxThread
       /\ \E p \in Phones, text \in ThreadTexts : Webhook(p, "text", text, None)
    \/ \E t \in DOMAIN tasks : Acquire(t)
    \/ \E t \in DOMAIN tasks : Dispatch(t, Delivered)
    \/ \E t \in DOMAIN tasks : DispatchThreadFails(t)
    \/ \E t \in DOMAIN tasks, reply \in ThreadReplies : Finish(t, reply, Delivered)

SpecThread == Init /\ [][NextThread]_vars

(***************************************************************************)
(* Texts of a participant: a greeting, a text that names a video format,   *)
(* a self-introduction; the Assistant runs no tool and answers with a      *)
(* plain text or asks for the menu, and the gateway may fail.              *)
(***************************************************************************)
PassPhone == "5531900000001"
PassTexts == {<<"oi">>, <<"institucional">>, <<"sou", "Ana">>}
PassReplies == {<<"Olá">>, <<"Olá", "#tools(menu)">>}

NextPass ==
    \/ /\ Len(responses) < MaxPass
       /\ \E text \in PassTexts : Webhook(PassPhone, "text", text, None)
    \/ \E t \in DOMAIN tasks : Acquire(t)
    \/ \E t \in DOMAIN tasks, g \in GatewayOutcomes : Dispatch(t, g)
    \/ \E t \in DOMAIN tasks, reply \in PassReplies, g \in GatewayOutcomes : Finish(t, reply, g)

SpecPass == Init /\ [][NextPass]_vars

(***************************************************************************)
(* webhook_post followed from one await to the next (whatsapp.py lines     *)
(* 1000-1033): requests are handled concurrently on the event loop, and    *)
(* another handler may run at each await on the database.  A request is a  *)
(* task from its arrival on; pc says where its handler stands: "lookup"    *)
(* before the select of the user, "insert_user" before the commit of a new *)
(* user, "dedup" before the duplicate test, "persist" before the commit of *)
(* the inbound row, then "queued" as a pipeline, or "failed" (an exception *)
(* left the handler) or "dropped" (a duplicate).  during holds the         *)
(* requests whose handlers were running when this one arrived.             *)
(***************************************************************************)
RacePhone == "5531900000001"
RaceTexts == {<<"Sim">>}
RaceReplies == {<<"Olá">>}

Handling == {"lookup", "insert_user", "dedup", "persist"}

InFlight == {r \in DOMAIN tasks : tasks[r].pc \in Handling}

\* The request arrives: the token was checked and the payload gave (phone,
\* msg_type, text).
HookReceive(phone, msg_type, text) ==
    /\ tasks' = Append(tasks,
                       [phone |-> phone, msg_type |-> msg_type, text |-> text,
                        push_name |-> None, pc |-> "lookup", user_id |-> 0,
                        flags |-> NoFlags, ai |-> 0, rounds |-> 0, rows |-> <<>>,
                        thread |-> 0, created |-> FALSE, during |-> InFlight])
    /\ outbox' = Append(outbox, <<>>)
    /\ UNCHANGED <<now, ticks, users, messages, USER_LOCKS, responses, runs>>

\* select(User).where(User.phone == phone) (line 1001) and, for a user found
\* without name, the update of the name (lines 1009-1014).
HookLookup(r) ==
    /\ tasks[r].pc = "lookup"
    /\ IF UserIdOf(tasks[r].phone) = 0
       THEN /\ tasks' = [tasks EXCEPT ![r].pc = "insert_user"]
            /\ UNCHANGED users
       ELSE /\ users' = EnsureUser(tasks[r].phone, tasks[r].push_name)
            /\ tasks' = [tasks EXCEPT ![r].pc = "dedup",
                                      ![r].user_id = UserIdOf(tasks[r].phone)]
    /\ UNCHANGED <<now, ticks, messages, USER_LOCKS, outbox, responses, runs>>

\* db.add(User(phone=...)) and commit (lines 1003-1008).  users.phone is
\* unique (db_models.py line 27): when a row for the phone was committed
\* since the select, the commit raises IntegrityError, which leaves the
\* handler, and the framework answers 500.
HookInsertUser(r) ==
    /\ tasks[r].pc = "insert_user"
    /\ IF UserIdOf(tasks[r].phone) # 0
       THEN /\ tasks' = [tasks EXCEPT ![r].pc = "failed"]
            /\ responses' = Append(responses, Response(500, ""))
            /\ UNCHANGED users
       ELSE /\ users' = EnsureUser(tasks[r].phone, tasks[r].push_name)
            /\ tasks' = [tasks EXCEPT ![r].pc = "dedup", ![r].user_id = Len(users) + 1]
            /\ UNCHANGED responses
    /\ UNCHANGED <<now, ticks, messages, USER_LOCKS, outbox, runs>>

\* _is_probably_duplicate (line 1017).
HookDedup(r) ==
    /\ tasks[r].pc = "dedup"
    /\ IF IsProbablyDuplicate(tasks[r].user_id,
                              IF tasks[r].msg_type = "text" THEN tasks[r].text ELSE None,
                              tasks[r].msg_type, 5)
       THEN /\ tasks' = [tasks EXCEPT ![r].pc = "dropped"]
            /\ responses' = Append(responses, Response(200, "duplicate_dropped"))
       ELSE /\ tasks' = [tasks EXCEPT ![r].pc = "persist"]
            /\ UNCHANGED responses
    /\ UNCHANGED <<now, ticks, users, messages, USER_LOCKS, outbox, runs>>

\* The inbound row is committed, the pipeline is created and the request
\* is answered (lines 1021-1033).
HookPersist(r) ==
    /\ tasks[r].pc = "persist"
    /\ messages' = Insert(messages, tasks[r].user_id,
                          <<Row(tasks[r].user_id, "user",
                                IF tasks[r].msg_type = "text" THEN tasks[r].text ELSE None,
                                tasks[r].msg_type)>>)
    /\ tasks' = [tasks EXCEPT ![r].pc = "queued"]
    /\ responses' = Append(responses, Response(200, ""))
    /\ UNCHANGED <<now, ticks, users, USER_LOCKS, outbox, runs>>

NextRace ==
    \/ /\ Len(tasks) < MaxRace
       /\ \/ \E text \in RaceTexts : HookReceive(RacePhone, "text", text)
          \/ \E mt \in MediaTypes : HookReceive(RacePhone, mt, None)
    \/ \E r \in DOMAIN tasks : HookLookup(r)
    \/ \E r \in DOMAIN tasks : HookInsertUser(r)
    \/ \E r \in DOMAIN tasks : HookDedup(r)
    \/ \E r \in DOMAIN tasks : HookPersist(r)
    \/ \E t \in DOMAIN tasks : Acquire(t)
    \/ \E t \in DOMAIN tasks : Dispatch(t, Delivered)
    \/ \E t \in DOMAIN tasks, reply \in RaceReplies : Finish(t, reply, Delivered)

SpecRace == Init /\ [][NextRace]_vars

(***************************************************************************)
(* ask_assistant, followed step by step (openai_service.py lines 314-410). *)
(* The provider is scripted by the inputs of the steps: the outcome of     *)
(* each call made to it, the status of the run at each retrieval, the tool *)
(* calls of a requires_action and the listing of the conversation.         *)
(***************************************************************************)
MAX_WAIT_SECONDS == 120
SLEEP == 4

\* OPENAI_API_KEY and ASSISTANT_ID are both set.
AI_CONFIGURED == TRUE

\* The texts ask_assistant returns when it gives up.
CONFIG_FALLBACK == <<"Configuração de IA ausente. Por favor, tente novamente em instantes.">>
APPEND_FALLBACK == <<"Não consegui falar com a IA agora. Podemos tentar de novo?">>
CREATE_FALLBACK == <<"Tive um problema ao iniciar a IA. Vamos tentar novamente já já.">>
RETRIEVE_FALLBACK == <<"A IA ficou indisponível no momento. Posso tentar outra vez?">>
TIMEOUT_FALLBACK == <<"Demorou um pouco mais do que o normal. Posso continuar por aqui?">>
SUBMIT_FALLBACK == <<"Não consegui concluir uma ação solicitada pela IA. Podemos tentar de novo?">>
FAILED_FALLBACK == <<"A IA não conseguiu concluir agora. Podemos continuar por aqui?">>
LIST_FALLBACK == <<"Tudo certo por aqui!">>
NO_TEXT_REPLY == <<"Certo!">>

\* Statuses of a run, by the branch of the loop that handles them.
PendingStatuses == {"queued", "in_progress"}
FailedStatuses == {"failed", "expired", "canceled", "cancelled"}
UnexpectedStatuses == {"cancelling", "incomplete"}

\* Outcomes of _append_message: accepted, rejected because a run is active
\* on the conversation, rejected for another reason.
AppendOutcomes == {"ok", "conflict", "error"}

\* Tool calls of a requires_action.  The arguments are a JSON text: an object
\* (with its "phone"), a text that is not JSON, or a JSON array.
ToolCall(id, name, args) == [id |-> id, name |-> name, args |-> args]
ArgsOf(phone) == [json |-> "object", phone |-> phone]
ArgsInvalid == [json |-> "invalid", phone |-> ""]
ArgsArray == [json |-> "array", phone |-> ""]

ToolBatches ==
    {<<>>,
     <<ToolCall("call_1", "enviar_video", ArgsOf("+5531900000001"))>>,
     <<ToolCall("call_1", "enviar_caixinha_interesse", ArgsOf("5531900000002"))>>,
     <<ToolCall("call_1", "enviar_caixinha_interesse", ArgsInvalid),
       ToolCall("call_2", "enviar_msg", ArgsOf("+5531900000001"))>>,
     <<ToolCall("call_1", "apagar_dados", ArgsOf("+5531900000001")),
       ToolCall("call_2", "enviar_video", ArgsArray)>>}

\* _parse_args: the dict the handlers read (dict = FALSE when the JSON text
\* holds a value that is not an object).
ParseArgs(args) ==
    IF args.json = "object" THEN [dict |-> TRUE, phone |-> args.phone]
    ELSE IF args.json = "array" THEN [dict |-> FALSE, phone |-> ""]
    ELSE [dict |-> TRUE, phone |-> ""]

\* The gateway calls of _execute_tool_call for one tool call: a handler given
\* something that is not a dict raises on its first args.get.
ToolCallSends(call, ok, by) ==
    IF ~ParseArgs(call.args).dict THEN <<>>
    ELSE ExecuteToolCall(call.name, ParseArgs(call.args).phone, ok, by)

\* The result reported for one tool call: "sent" for {"status": "sent"},
\* "error" for {"error": ...}, whether returned by the handler or built by
\* the loop of ask_assistant when _execute_tool_call raised.
ToolCallOutput(call, ok) ==
    LET a == ParseArgs(call.args)
        phone == OnlyDigits(a.phone)
    IN  IF call.name \in {"enviar_caixinha_interesse", "menu", "caixinha"}
        THEN IF ~a.dict \/ phone = "" THEN "error" ELSE IF ok THEN "sent" ELSE "error"
        ELSE IF call.name \in {"enviar_video", "video", "vídeo"}
        THEN IF ~a.dict \/ phone = "" \/ LUNA_VIDEO_URL = None THEN "error"
             ELSE IF ok THEN "sent" ELSE "error"
        ELSE IF call.name \in {"enviar_msg", "handoff", "transfer"}
        THEN IF ~a.dict \/ HANDOFF_NOTIFY_NUMBERS = <<>> THEN "error" ELSE "sent"
        ELSE "error"

\* Listings of the conversation, most recent turn first; text = None for a
\* turn with no text content.  ok = FALSE when _list_messages raises.
Turn(role, text) == [role |-> role, text |-> text]
Listing(ok, data) == [ok |-> ok, data |-> data]

Listings ==
    {Listing(FALSE, <<>>),
     Listing(TRUE, <<>>),
     Listing(TRUE, <<Turn("assistant", <<"Olá">>), Turn("user", <<"Sim">>),
                     Turn("assistant", <<"#tools(menu)">>)>>),
     Listing(TRUE, <<Turn("assistant", None), Turn("user", <<"Sim">>),
                     Turn("assistant", <<"Olá", "#tools()">>)>>)}

\* The text of the oldest turn of the assistant instead of the most recent.
FinalTextOldest(listing) ==
    LET texts == {i \in DOMAIN listing.data :
                     listing.data[i].role = "assistant" /\ listing.data[i].text # None}
    IN  IF ~listing.ok THEN LIST_FALLBACK
        ELSE IF texts = {} THEN NO_TEXT_REPLY
        ELSE listing.data[CHOOSE i \in texts : \A j \in texts : i >= j].text

\* The value returned on "completed" (lines 386-401).
FinalText(listing) ==
    LET texts == {i \in DOMAIN listing.data :
                     listing.data[i].role = "assistant" /\ listing.data[i].text # None}
    IN  IF ~listing.ok THEN LIST_FALLBACK
        ELSE IF texts = {} THEN NO_TEXT_REPLY
        ELSE listing.data[CHOOSE i \in texts : \A j \in texts : i <= j].text

\* The state of a call of ask_assistant that has made no provider call yet;
\* status is the status of the run at its last retrieval ("" before the first).
NewRun ==
    [pc |-> "append", appends |-> 0, conflict |-> FALSE, polls |-> 0, waited |-> 0,
     status |-> "", steady |-> TRUE, seen |-> 0, rounds |-> 0, extractions |-> 0,
     pending |-> <<>>, execs |-> 0, outputs |-> <<>>, submitted |-> <<>>,
     listed |-> Listing(FALSE, <<>>), exit |-> "", result |-> None]

\* A return that hands back the empty text whatever the branch.
ReturnEmpty(run, exit, text) == [run EXCEPT !.pc = "returned", !.exit = exit, !.result = <<>>]

\* return text
Return(run, exit, text) == [run EXCEPT !.pc = "returned", !.exit = exit, !.result = text]

SetRun(t, run) == [k \in DOMAIN runs \cup {t} |-> IF k = t THEN run ELSE runs[k]]

\* ask_assistant is called: the configuration is checked and the user turn
\* is appended (lines 325-333).
AskAppend(t, outcome) ==
    /\ tasks[t].pc = "ai"
    /\ t \notin DOMAIN runs
    /\ runs' = SetRun(t,
           IF ~AI_CONFIGURED THEN Return(NewRun, "config", CONFIG_FALLBACK)
           ELSE IF outcome = "ok" THEN [NewRun EXCEPT !.pc = "create", !.appends = 1]
           ELSE Return([NewRun EXCEPT !.appends = 1, !.conflict = (outcome = "conflict")],
                       "append", APPEND_FALLBACK))
    /\ UNCHANGED <<now, ticks, users, messages, tasks, USER_LOCKS, outbox, responses>>

\* _create_run (lines 335-340).
AskCreateRun(t, ok) ==
    /\ t \in DOMAIN runs
    /\ runs[t].pc = "create"
    /\ runs' = SetRun(t, IF ok THEN [runs[t] EXCEPT !.pc = "poll"]
                         ELSE Return(runs[t], "create", CREATE_FALLBACK))
    /\ UNCHANGED <<now, ticks, users, messages, tasks, USER_LOCKS, outbox, responses>>

\* One iteration of the loop in which _retrieve_run raises (lines 348-352).
AskRetrieveFails(t) ==
    /\ t \in DOMAIN runs
    /\ runs[t].pc = "poll"
    /\ runs' = SetRun(t, Return([runs[t] EXCEPT !.polls = @ + 1], "retrieve", RETRIEVE_FALLBACK))
    /\ UNCHANGED <<now, ticks, users, messages, tasks, USER_LOCKS, outbox, responses>>

\* An iteration on such a status that sleeps and goes on whatever was waited.
AskWaitNoCeiling(t, status) ==
    /\ t \in DOMAIN runs
    /\ runs[t].pc = "poll"
    /\ status \in PendingStatuses \cup UnexpectedStatuses
    /\ runs' = SetRun(t, [runs[t] EXCEPT !.polls = @ + 1, !.waited = @ + SLEEP,
                                         !.status = status,
                                         !.steady = @ /\ status \in PendingStatuses])
    /\ UNCHANGED <<now, ticks, users, messages, tasks, USER_LOCKS, outbox, responses>>

\* One iteration on a status that is queued, in_progress (lines 355-360) or
\* none of those the loop knows (lines 406-410).
AskWait(t, status) ==
    /\ t \in DOMAIN runs
    /\ runs[t].pc = "poll"
    /\ status \in PendingStatuses \cup UnexpectedStatuses
    /\ \E run \in {[runs[t] EXCEPT !.polls = @ + 1, !.waited = @ + SLEEP,
                                   !.status = status,
                                   !.steady = @ /\ status \in PendingStatuses]} :
          runs' = SetRun(t, IF run.waited >= MAX_WAIT_SECONDS
                            THEN Return(run, "timeout", TIMEOUT_FALLBACK)
                            ELSE run)
    /\ UNCHANGED <<now, ticks, users, messages, tasks, USER_LOCKS, outbox, responses>>

\* One iteration on requires_action, up to the tool calls being read (lines 362-366).
AskRequiresAction(t, tool_calls) ==
    /\ t \in DOMAIN runs
    /\ runs[t].pc = "poll"
    /\ runs[t].seen < MaxRounds
    /\ runs' = SetRun(t, [runs[t] EXCEPT !.polls = @ + 1, !.steady = FALSE, !.seen = @ + 1,
                                         !.status = "requires_action", !.pc = "tools", !.pending = tool_calls,
                                         !.execs = 0, !.outputs = <<>>])
    /\ UNCHANGED <<now, ticks, users, messages, tasks, USER_LOCKS, outbox, responses>>

\* A turn of the loop that reports nothing for a tool call that failed.
AskExecuteToolDropsFailure(t, ok) ==
    /\ t \in DOMAIN runs
    /\ runs[t].pc = "tools"
    /\ runs[t].execs < Len(runs[t].pending)
    /\ \E call \in {runs[t].pending[runs[t].execs + 1]} :
          /\ outbox' = [outbox EXCEPT ![t] = @ \o ToolCallSends(call, ok, t)]
          /\ runs' = SetRun(t, [runs[t] EXCEPT
                                   !.execs = @ + 1,
                                   !.outputs = IF ToolCallOutput(call, ok) = "error" THEN @
                                               ELSE Append(@, [id |-> call.id, output |-> "sent"])])
    /\ Failed(outbox') <= MaxSendFailures
    /\ UNCHANGED <<now, ticks, users, messages, tasks, USER_LOCKS, responses>>

\* One turn of "for call in tool_calls" (lines 368-374).
AskExecuteTool(t, ok) ==
    /\ t \in DOMAIN runs
    /\ runs[t].pc = "tools"
    /\ runs[t].execs < Len(runs[t].pending)
    /\ \E call \in {runs[t].pending[runs[t].execs + 1]} :
          /\ outbox' = [outbox EXCEPT ![t] = @ \o ToolCallSends(call, ok, t)]
          /\ runs' = SetRun(t, [runs[t] EXCEPT
                                   !.execs = @ + 1,
                                   !.outputs = Append(@, [id |-> call.id,
                                                          output |-> ToolCallOutput(call, ok)])])
    /\ Failed(outbox') <= MaxSendFailures
    /\ UNCHANGED <<now, ticks, users, messages, tasks, USER_LOCKS, responses>>

\* _submit_tool_outputs after the last tool call (lines 376-384).
AskSubmit(t, ok) ==
    /\ t \in DOMAIN runs
    /\ runs[t].pc = "tools"
    /\ runs[t].execs = Len(runs[t].pending)
    /\ \E run \in {[runs[t] EXCEPT !.rounds = @ + 1, !.submitted = runs[t].outputs]} :
          runs' = SetRun(t, IF ok THEN [run EXCEPT !.pc = "poll"]
                            ELSE Return(run, "submit", SUBMIT_FALLBACK))
    /\ UNCHANGED <<now, ticks, users, messages, tasks, USER_LOCKS, outbox, responses>>

\* One iteration on completed: the conversation is listed and the text
\* returned (lines 386-401).
AskCompleted(t, listing) ==
    /\ t \in DOMAIN runs
    /\ runs[t].pc = "poll"
    /\ runs' = SetRun(t, Return([runs[t] EXCEPT !.polls = @ + 1, !.steady = FALSE,
                                                !.status = "completed",
                                                !.extractions = @ + 1, !.listed = listing],
                                "completed", FinalText(listing)))
    /\ UNCHANGED <<now, ticks, users, messages, tasks, USER_LOCKS, outbox, responses>>

\* One iteration on failed, expired or cancelled (lines 403-404).
AskFailed(t, status) ==
    /\ t \in DOMAIN runs
    /\ runs[t].pc = "poll"
    /\ status \in FailedStatuses
    /\ runs' = SetRun(t, Return([runs[t] EXCEPT !.polls = @ + 1, !.steady = FALSE, !.status = status],
                                "failed", FAILED_FALLBACK))
    /\ UNCHANGED <<now, ticks, users, messages, tasks, USER_LOCKS, outbox, responses>>

\* ask_assistant has returned: the pipeline handles the text (whatsapp.py line 908 on).
AskReturn(t, g) ==
    /\ t \in DOMAIN runs
    /\ runs[t].pc = "returned"
    /\ Finish(t, runs[t].result, g)

AskPhone == "5531900000001"
AskTexts == {<<"Sim">>}

\* One text delivery and the call of ask_assistant its pipeline makes.
NextAsk ==
    \/ /\ tasks = <<>>
       /\ \E text \in AskTexts : Webhook(AskPhone, "text", text, None)
    \/ \E t \in DOMAIN tasks : Acquire(t)
    \/ \E t \in DOMAIN tasks : Dispatch(t, Delivered)
    \/ \E t \in DOMAIN tasks, outcome \in AppendOutcomes : AskAppend(t, outcome)
    \/ \E t \in DOMAIN tasks, ok \in BOOLEAN : AskCreateRun(t, ok)
    \/ \E t \in DOMAIN tasks : AskRetrieveFails(t)
    \/ \E t \in DOMAIN tasks, status \in PendingStatuses \cup UnexpectedStatuses : AskWait(t, status)
    \/ \E t \in DOMAIN tasks, tool_calls \in ToolBatches : AskRequiresAction(t, tool_calls)
    \/ \E t \in DOMAIN tasks, ok \in BOOLEAN : AskExecuteTool(t, ok)
    \/ \E t \in DOMAIN tasks, ok \in BOOLEAN : AskSubmit(t, ok)
    \/ \E t \in DOMAIN tasks, listing \in Listings : AskCompleted(t, listing)
    \/ \E t \in DOMAIN tasks, status \in FailedStatuses : AskFailed(t, status)
    \/ \E t \in DOMAIN tasks, g \in GatewayOutcomes : AskReturn(t, g)

SpecAsk == Init /\ [][NextAsk]_vars

(***************************************************************************)
(* webhook_post from the request on (whatsapp.py lines 110-131, 173-330    *)
(* and 970-1033).  A JSON value is a record: a string is the sequence of   *)
(* its pieces, each piece a maximal run of digits or a run of other        *)
(* characters.                                                             *)
(***************************************************************************)
Str(pieces) == [type |-> "str", v |-> pieces]
Num == [type |-> "num", v |-> <<>>]
Absent == [type |-> "absent", v |-> <<>>]

\* len() of a piece made of digits, 0 for a piece that holds none.
DigitLen(piece) ==
    CASE piece \in {"5531900000001", "5531900000002"} -> 13
      [] piece = "120363041234567890" -> 18
      [] piece = "1400000000" -> 10
      [] piece = "123" -> 3
      [] OTHER -> 0

IsDigits(piece) == DigitLen(piece) > 0

RECURSIVE SumLen(_)
SumLen(pieces) == IF pieces = <<>> THEN 0 ELSE DigitLen(Head(pieces)) + SumLen(Tail(pieces))

\* The string made of the pieces.
Joined(pieces) ==
    IF pieces = <<>> THEN ""
    ELSE IF Len(pieces) = 1 THEN pieces[1]
    ELSE CASE pieces = <<"+", "5531900000001">> -> "+5531900000001"
           [] pieces = <<"5531900000001", "1400000000">> -> "55319000000011400000000"
           [] OTHER -> "?"

\* _only_digits, on pieces.
DigitsOf(pieces) == SelectSeq(pieces, IsDigits)

ChatSuffixes == {"@s.whatsapp.net", "@c.us"}
GroupSuffix == "@g.us"
Has(pieces, marks) == \E i \in DOMAIN pieces : pieces[i] \in marks

\* value.split("@")[0]
BeforeAt(pieces) ==
    LET ats == {i \in DOMAIN pieces : pieces[i] \in ChatSuffixes \cup {GroupSuffix}}
    IN  IF ats = {} THEN pieces
        ELSE SubSeq(pieces, 1, (CHOOSE i \in ats : \A j \in ats : i <= j) - 1)

\* _norm_phone_from_jid: the pieces of the identifier, <<>> for None.
NormPhoneFromJid(value) ==
    IF value.type # "str" THEN <<>>
    ELSE IF Has(value.v, {GroupSuffix}) THEN <<>>
    ELSE IF Has(value.v, ChatSuffixes) THEN BeforeAt(value.v)
    ELSE IF SumLen(DigitsOf(value.v)) >= 10 THEN DigitsOf(value.v)
    ELSE <<>>

\* _phone_regex.search(x).group(1): the first run of 10 to 15 digits, with
\* the "+" in front of it when there is one.
PhoneRegexSearch(pieces) ==
    LET hits == {i \in DOMAIN pieces : DigitLen(pieces[i]) >= 10 /\ DigitLen(pieces[i]) <= 15}
        first == CHOOSE i \in hits : \A j \in hits : i <= j
    IN  IF hits = {} THEN <<>>
        ELSE IF first > 1 /\ pieces[first - 1] = "+" THEN <<"+", pieces[first]>>
        ELSE <<pieces[first]>>

\* walk of _scan_for_phone over the strings of the payload in document order:
\* a string with a chat suffix and 10 digits before it replaces what was
\* found, the regex is tried only while nothing was found.
RECURSIVE Walk(_, _)
Walk(strings, found_plain) ==
    IF strings = <<>> THEN found_plain
    ELSE LET x == Head(strings)
             p == BeforeAt(x)
         IN  IF Has(x, ChatSuffixes) /\ SumLen(DigitsOf(p)) >= 10
             THEN Walk(Tail(strings), p)
             ELSE IF found_plain = <<>> /\ PhoneRegexSearch(x) # <<>>
             THEN Walk(Tail(strings), PhoneRegexSearch(x))
             ELSE Walk(Tail(strings), found_plain)

\* The values of the payload, in document order: the message (key.remoteJid,
\* key.participant, message.conversation), then chatId, then id.  Every other
\* key the code looks up is absent.
Values(event) == <<event.remoteJid, event.participant, event.text, event.chatId, event.id>>

Strings(event) ==
    LET strs == SelectSeq(Values(event), LAMBDA val : val.type = "str")
    IN  [i \in DOMAIN strs |-> strs[i].v]

\* _scan_for_phone
ScanForPhone(event) == DigitsOf(Walk(Strings(event), <<>>))

\* _extract_text_generic: the text, None when there is none.
ExtractTextGeneric(event) == IF event.text.type = "str" THEN event.text.v ELSE None

\* _is_from_me: key.fromMe is looked up in the message record at
\* data.data.messages.0 and at messages.0, not in a record that is the
\* payload itself.
IsFromMe(payload) == payload.json = "object" /\ payload.fromMe /\ payload.shape = "nested"

\* The phone chosen by _extract_sender_and_type before its last check, as
\* pieces, for a payload that is a JSON object.
Candidate(event) ==
    LET direct == NormPhoneFromJid(event.remoteJid)
        is_group == /\ event.shape = "nested"
                    /\ event.remoteJid.type = "str"
                    /\ Has(event.remoteJid.v, {GroupSuffix})
        author == IF direct = <<>> /\ is_group THEN NormPhoneFromJid(event.participant)
                  ELSE direct
        p == event.chatId
        cand == IF NormPhoneFromJid(p) # <<>> THEN NormPhoneFromJid(p)
                ELSE IF p.type = "str" /\ SumLen(DigitsOf(p.v)) >= 10 THEN DigitsOf(p.v)
                ELSE <<>>
        keyed == IF author = <<>> THEN cand ELSE author
    IN  IF keyed = <<>> THEN ScanForPhone(event) ELSE keyed

\* _extract_sender_and_type.  raises = TRUE when the call ends in an
\* exception: a payload that is not an object has no .get (line 295), which
\* is reached because none of the paths gives a phone.  phone = "" for None.
ExtractSenderAndType(event) ==
    IF event.json # "object"
    THEN [raises |-> TRUE, phone |-> "", msg_type |-> "unknown", text |-> None]
    ELSE [raises |-> FALSE,
          phone |-> IF SumLen(DigitsOf(Candidate(event))) < 10 THEN ""
                    ELSE Joined(Candidate(event)),
          msg_type |-> IF ExtractTextGeneric(event) # None THEN "text"
                       ELSE IF event.image THEN "image" ELSE "unknown",
          text |-> ExtractTextGeneric(event)]

\* Payloads.  json says what request.json() gives: "invalid" when it raises,
\* otherwise the kind of the JSON value.  shape says where the message record
\* (key.remoteJid, key.participant, key.fromMe, message.conversation) sits:
\* "nested" at data.data.messages.0, "top" when the payload is the record.
Payload(json, fromMe, remoteJid, participant, chatId, text, id, image) ==
    [json |-> json, fromMe |-> fromMe, remoteJid |-> remoteJid, participant |-> participant,
     chatId |-> chatId, text |-> text, id |-> id, image |-> image, shape |-> "nested"]

AtTopLevel(payload) == [payload EXCEPT !.shape = "top"]

NotAnObject(json) == Payload(json, FALSE, Absent, Absent, Absent, Absent, Absent, FALSE)

DirectJid == Str(<<"5531900000001", "@s.whatsapp.net">>)
AuthorJid == Str(<<"5531900000002", "@s.whatsapp.net">>)
GroupJid == Str(<<"120363041234567890", "@g.us">>)
OldGroupJid == Str(<<"5531900000001", "-", "1400000000", "@g.us">>)
ShortJid == Str(<<"123", "@s.whatsapp.net">>)
Hello == Str(<<"Olá">>)

Payloads ==
    {NotAnObject("invalid"), NotAnObject("array"), NotAnObject("string"),
     NotAnObject("number"), NotAnObject("null"),
     Payload("object", FALSE, DirectJid, Absent, Absent, Hello, Absent, FALSE),
     Payload("object", TRUE, DirectJid, Absent, Absent, Hello, Absent, FALSE),
     Payload("object", FALSE, DirectJid, Absent, Absent, Absent, Absent, TRUE),
     Payload("object", FALSE, GroupJid, AuthorJid, Absent, Hello, Absent, FALSE),
     Payload("object", FALSE, GroupJid, Absent, Absent, Hello, Absent, FALSE),
     Payload("object", FALSE, Absent, Absent, GroupJid, Hello, Absent, FALSE),
     Payload("object", FALSE, OldGroupJid, Absent, Absent, Hello, Absent, FALSE),
     Payload("object", FALSE, ShortJid, Absent, Absent, Hello, Absent, FALSE),
     Payload("object", FALSE, Num, Num, Num, Num, Str(<<"123">>), FALSE),
     Payload("object", FALSE, Absent, Absent, Absent, Hello, Absent, FALSE),
     Payload("object", FALSE, ShortJid, Absent, DirectJid, Hello, Absent, FALSE),
     AtTopLevel(Payload("object", TRUE, DirectJid, Absent, Absent, Hello, Absent, FALSE))}

\* WEBHOOK_VERIFY_TOKEN, and the tokens a request carries: the header
\* X-Webhook-Token and the query parameters token and hub.verify_token (""
\* when not given).
WEBHOOK_VERIFY_TOKEN == "secret"
Tokens == {"", "secret", "wrong"}

\* An extraction that prefers the query parameter to the header.
ExtractTokenQueryFirst(request) ==
    IF request.query # "" THEN request.query
    ELSE IF request.header # "" THEN request.header
    ELSE request.hub

\* _extract_token_from_request ("" for None: no token was given).
ExtractTokenFromRequest(request) ==
    IF request.header # "" THEN request.header
    ELSE IF request.query # "" THEN request.query
    ELSE IF request.hub # "" THEN request.hub
    ELSE ""

\* A check that lets every request through.
AuthorisedAlways(request) == TRUE

\* _ensure_authorised returns (it raises HTTPException 403 otherwise), when
\* _env_token gives expected.
EnsureAuthorised(expected, request) ==
    ~(expected # "" /\ ExtractTokenFromRequest(request) # expected)

Authorised(request) == EnsureAuthorised(WEBHOOK_VERIFY_TOKEN, request)

\* Requests: every payload with the token in the header, and every
\* combination of tokens with the text of a direct chat.
Requests ==
    [header : {WEBHOOK_VERIFY_TOKEN}, query : {""}, hub : {""}, payload : Payloads]
        \cup [header : Tokens, query : Tokens, hub : Tokens,
              payload : {Payload("object", FALSE, DirectJid, Absent, Absent, Hello, Absent, FALSE)}]

Reply(status, note) ==
    /\ responses' = Append(responses, Response(status, note))
    /\ UNCHANGED <<now, ticks, users, messages, tasks, USER_LOCKS, outbox, runs>>

\* A handler that goes on with a made-up identifier when none was extracted.
WebhookPostGuessing(request) ==
    IF ~Authorised(request) THEN Reply(403, "Invalid webhook token")
    ELSE IF request.payload.json = "invalid" THEN Reply(200, "invalid JSON")
    ELSE IF IsFromMe(request.payload) THEN Reply(200, "from_me")
    ELSE IF ExtractSenderAndType(request.payload).raises THEN Reply(500, "")
    ELSE Webhook(IF ExtractSenderAndType(request.payload).phone = "" THEN "0000000000"
                 ELSE ExtractSenderAndType(request.payload).phone,
                 ExtractSenderAndType(request.payload).msg_type,
                 ExtractSenderAndType(request.payload).text, None)

\* webhook_post.  An exception that is not an HTTPException leaves the
\* handler and the framework answers 500.
WebhookPost(request) ==
    IF ~Authorised(request) THEN Reply(403, "Invalid webhook token")
    ELSE IF request.payload.json = "invalid" THEN Reply(200, "invalid JSON")
    ELSE IF IsFromMe(request.payload) THEN Reply(200, "from_me")
    ELSE IF ExtractSenderAndType(request.payload).raises THEN Reply(500, "")
    ELSE IF ExtractSenderAndType(request.payload).phone = "" THEN Reply(200, "no phone")
    ELSE Webhook(ExtractSenderAndType(request.payload).phone,
                 ExtractSenderAndType(request.payload).msg_type,
                 ExtractSenderAndType(request.payload).text, None)

HookReplies == {<<"Olá">>}

\* The requests received (the state keeps them for the properties only when
\* they are answered: responses[i] answers the i-th request).
NextHook ==
    \/ /\ Len(responses) < MaxPosts
       /\ \E request \in Requests : WebhookPost(request)
    \/ \E t \in DOMAIN tasks : Acquire(t)
    \/ \E t \in DOMAIN tasks : Dispatch(t, Delivered)
    \/ \E t \in DOMAIN tasks, reply \in HookReplies : Finish(t, reply, Delivered)

SpecHook == Init /\ [][NextHook]_vars

(***************************************************************************)
(* Properties                                                              *)
(***************************************************************************)
\* Task t is inside "async with _get_user_lock(phone)".
InCritical(t) == tasks[t].pc \in {"locked", "ai"}

\* The step in which the pipeline of task t infers the state and dispatches.
Dispatched(t) == tasks[t].pc = "locked" /\ tasks'[t].pc # "locked"

Kinds == {"menu", "video", "handoff", "handoff_offer", "name_request"}
WindowSeconds == 30 * 60
DedupSeconds == 5

\* The rows of the user's log written by the user / by the assistant with a kind.
Inbound(user_id) ==
    {i \in DOMAIN messages[user_id] : messages[user_id][i].sender = "user"}

Outbound(user_id, kind) ==
    {i \in DOMAIN messages[user_id] :
        /\ messages[user_id][i].sender = "assistant"
        /\ messages[user_id][i].media_type = kind}

\* The most recent outbound event of the kind is younger than seconds.
SentWithin(user_id, kind, seconds) ==
    /\ user_id \in DOMAIN messages
    /\ Outbound(user_id, kind) # {}
    /\ now - messages[user_id][Max(Outbound(user_id, kind))].timestamp < seconds

\* Some gateway call of the sequence o went to a consultant.
NotifiesConsultants(o) ==
    \E i \in DOMAIN o : o[i].to \in Range(HANDOFF_NOTIFY_NUMBERS)

\* Some gateway call of the sequence o is of the given type.
Fires(o, type) == \E i \in DOMAIN o : o[i].type = type

\* C1: for every participant at most one pipeline is inside its critical
\* section, and a pipeline whose participant's lock is free and that is first
\* in line for it can enter whatever the pipelines of other participants do.
C1_MutualExclusion ==
    /\ \A t1, t2 \in DOMAIN tasks :
          (t1 # t2 /\ InCritical(t1) /\ InCritical(t2))
              => LockKey(tasks[t1].phone) # LockKey(tasks[t2].phone)
    /\ \A t \in DOMAIN tasks :
          (/\ tasks[t].pc = "queued"
           /\ \A s \in DOMAIN tasks :
                 (s # t /\ LockKey(tasks[s].phone) = LockKey(tasks[t].phone))
                     => (~InCritical(s) /\ (tasks[s].pc = "queued" => t < s)))
              => ENABLED Acquire(t)

\* Two pipelines of different participants are inside their critical sections
\* while a third one waits for the lock of the first participant.
C1_Witness ==
    \E t1, t2, t3 \in DOMAIN tasks :
        /\ InCritical(t1) /\ InCritical(t2)
        /\ tasks[t1].phone # tasks[t2].phone
        /\ tasks[t3].pc = "queued"
        /\ tasks[t3].phone = tasks[t1].phone

\* C2: after one menu, two different affirmative replies that arrive after it
\* fire the video at most once.
C2_VideoAtMostOnce ==
    \A u \in DOMAIN messages :
        (/\ Len(messages[u]) >= 4
         /\ Inbound(u) \cap (1..4) = {1, 3, 4}
         /\ Outbound(u, "menu") = {2}
         /\ IsPositiveReply(messages[u][3].content)
         /\ IsPositiveReply(messages[u][4].content)
         /\ messages[u][3].content # messages[u][4].content)
            => Cardinality(Outbound(u, "video")) <= 1

\* C3: of two consecutive identical inbound events of a participant delivered
\* less than 5 seconds apart, only the first is persisted and processed.
C3_DuplicateDropped ==
    \A u \in DOMAIN messages :
        \A i, j \in Inbound(u) :
            (/\ i < j
             /\ \A k \in Inbound(u) : ~(i < k /\ k < j)
             /\ messages[u][i].content = messages[u][j].content
             /\ messages[u][i].media_type = messages[u][j].media_type)
                => messages[u][j].timestamp - messages[u][i].timestamp >= DedupSeconds

\* C4: _has_recent_generic is true exactly when the most recent outbound
\* event of the kind is strictly younger than the window.
C4_RecentIffInsideWindow ==
    \A u \in DOMAIN messages :
        \A kind \in Kinds :
            HasRecentGeneric(u, kind, 30) <=> SentWithin(u, kind, WindowSeconds)

\* C5: the flags a pipeline infers are those of the persisted log: the flag of
\* a kind is true when an event of the kind was appended less than the window
\* ago and false otherwise.
C5_FlagsReflectLog ==
    [][\A t \in DOMAIN tasks :
          Dispatched(t) =>
              \A kind \in Kinds :
                  tasks'[t].flags[kind]
                      <=> SentWithin(UserIdOf(tasks[t].phone), kind, WindowSeconds)]_vars

\* C6: with a menu sent within the window and an affirmative text, the
\* pipeline fires the video and never calls the Assistant.
C6_MenuYesFiresVideo ==
    [][\A t \in DOMAIN tasks :
          (/\ Dispatched(t)
           /\ tasks[t].msg_type = "text"
           /\ SentWithin(UserIdOf(tasks[t].phone), "menu", WindowSeconds)
           /\ IsPositiveReply(tasks[t].text))
              => /\ tasks'[t].pc = "done"
                 /\ tasks'[t].ai = 0
                 /\ Fires(outbox'[t], "media")]_vars

\* C7: with a menu sent within the window and a negative text, the pipeline
\* sends the closing message, appends one text event and does nothing else.
C7_MenuNoCloses ==
    [][\A t \in DOMAIN tasks :
          (/\ Dispatched(t)
           /\ tasks[t].msg_type = "text"
           /\ SentWithin(UserIdOf(tasks[t].phone), "menu", WindowSeconds)
           /\ IsNegativeReply(tasks[t].text))
              => /\ tasks'[t].pc = "done"
                 /\ tasks'[t].ai = 0
                 /\ tasks'[t].rows = <<"text">>
                 /\ Len(outbox'[t]) = 1
                 /\ outbox'[t][1].type = "text"
                 /\ outbox'[t][1].to = tasks[t].phone]_vars

C9_NowWithoutNameAsks ==
    [][\A t \in DOMAIN tasks :
          (/\ Dispatched(t)
           /\ tasks[t].msg_type = "text"
           /\ SentWithin(UserIdOf(tasks[t].phone), "handoff_offer", WindowSeconds)
           /\ \A kind \in {"menu", "name_request", "handoff"} :
                 ~SentWithin(UserIdOf(tasks[t].phone), kind, WindowSeconds)
           /\ WantsNow(tasks[t].text)
           /\ ExtractNameFromText(tasks[t].text, FALSE) = None
           /\ users[UserIdOf(tasks[t].phone)].name = None)
              => /\ tasks'[t].pc = "done"
                 /\ tasks'[t].ai = 0
                 /\ tasks'[t].rows = <<"name_request">>
                 /\ ~NotifiesConsultants(outbox'[t])]_vars

\* C10: the consultants are notified about a participant only after a handoff
\* offer was sent to the participant and the participant then accepted it.
C10_HandoffByConsent ==
    \A t \in DOMAIN tasks :
        NotifiesConsultants(outbox[t]) =>
            \E i, j \in DOMAIN messages[UserIdOf(tasks[t].phone)] :
                /\ i < j
                /\ i \in Outbound(UserIdOf(tasks[t].phone), "handoff_offer")
                /\ j \in Inbound(UserIdOf(tasks[t].phone))
                /\ WantsNow(messages[UserIdOf(tasks[t].phone)][j].content)

\* The window in which a video already sent is not to be sent again by a tool.
AntiDuplicateSeconds == 2 * 60

\* The gateway calls that a step adds to those of task t.
NewSends(t) == SubSeq(outbox'[t], Len(outbox[t]) + 1, Len(outbox'[t]))

\* The step in which ask_assistant, called by task t, runs one tool call.
ToolRun(t) == tasks[t].pc = "ai" /\ tasks'[t].rounds = tasks[t].rounds + 1

\* C11: when the video was sent to the participant inside the anti-duplicate
\* window, a tool call that asks for the video again makes no gateway call.
C11_ToolVideoNotRepeated ==
    [][\A t \in DOMAIN tasks :
          (ToolRun(t) /\ SentWithin(tasks[t].user_id, "video", AntiDuplicateSeconds))
              => ~Fires(NewSends(t), "media")]_vars

\* The step in which the pipeline of task t handles the text ask_assistant returned.
PostAIStep(t) == tasks[t].pc = "ai" /\ tasks'[t].pc = "done"

\* C12: handling the AI reply, the dispatcher sends neither a menu when a menu
\* went out inside the window nor the video when the video went out inside it.
C12_PostAIGuard ==
    [][\A t \in DOMAIN tasks :
          PostAIStep(t) =>
              /\ SentWithin(tasks[t].user_id, "menu", WindowSeconds)
                    => ~Fires(NewSends(t), "menu")
              /\ SentWithin(tasks[t].user_id, "video", WindowSeconds)
                    => ~Fires(NewSends(t), "media")]_vars

\* The tokens of the form #tool(...) or #tools(...), the empty form included.
DirectiveTags ==
    {"#tools(menu)", "#tools(video)", "#tools(handoff)", "#tool(enviar_video)",
     "#tools(menu, video)", "#tools()", "#tool()"}

HasDirective(content) == \E i \in DOMAIN content : content[i] \in DirectiveTags

\* C13: no text sent to a participant and no row written for the assistant
\* contains a tool tag, whatever is between its parentheses.
C13_NoTagReachesHuman ==
    /\ \A t \in DOMAIN outbox : \A i \in DOMAIN outbox[t] :
          outbox[t][i].type = "text" => ~HasDirective(outbox[t][i].content)
    /\ \A u \in DOMAIN messages : \A i \in DOMAIN messages[u] :
          messages[u][i].sender = "assistant" => ~HasDirective(messages[u][i].content)

\* The turns of a listing written by the assistant that hold a text.
AssistantTexts(listing) ==
    {i \in DOMAIN listing.data :
        listing.data[i].role = "assistant" /\ listing.data[i].text # None}

\* C14: a call of ask_assistant that returns on "completed" after the run
\* reported requires_action n times has submitted tool outputs n times, has
\* read the conversation once, after the submissions, and returns the text of
\* the most recent turn of the assistant that holds one.
C14_RoundsThenOneExtraction ==
    \A t \in DOMAIN runs :
        /\ runs[t].pc # "returned" => runs[t].extractions = 0
        /\ runs[t].exit = "completed" =>
              /\ runs[t].rounds = runs[t].seen
              /\ runs[t].extractions = 1
              /\ (runs[t].listed.ok /\ AssistantTexts(runs[t].listed) # {}) =>
                    \E i \in AssistantTexts(runs[t].listed) :
                        /\ \A j \in AssistantTexts(runs[t].listed) : i <= j
                        /\ runs[t].result = runs[t].listed.data[i].text

\* The run reported requires_action twice and then completed; the text of the
\* most recent turn of the assistant was returned, older ones being present.
C14_Witness ==
    \E t \in DOMAIN runs :
        /\ runs[t].exit = "completed"
        /\ runs[t].seen = 2
        /\ runs[t].rounds = 2
        /\ Cardinality(AssistantTexts(runs[t].listed)) = 2
        /\ runs[t].result = <<"Olá">>

\* C15: while the run has reported nothing but queued or in_progress, the call
\* has retrieved its status at most 120 / 4 times, sleeping 4 s after each,
\* and once it has slept 120 s it has returned the timeout fallback.
C15_PendingRunTimesOut ==
    \A t \in DOMAIN runs :
        runs[t].steady =>
            /\ runs[t].polls <= MAX_WAIT_SECONDS \div SLEEP
            /\ runs[t].exit # "retrieve" => runs[t].waited = SLEEP * runs[t].polls
            /\ runs[t].waited >= MAX_WAIT_SECONDS =>
                  /\ runs[t].pc = "returned"
                  /\ runs[t].exit = "timeout"
                  /\ runs[t].result = TIMEOUT_FALLBACK
            /\ runs[t].exit = "timeout" => runs[t].waited = MAX_WAIT_SECONDS

\* The run stayed queued or in_progress for 30 retrievals and the call
\* returned the timeout fallback.
C15_Witness ==
    \E t \in DOMAIN runs :
        /\ runs[t].steady
        /\ runs[t].polls = 30
        /\ runs[t].waited = 120
        /\ runs[t].exit = "timeout"
        /\ runs[t].result # None

\* C16: whatever statuses the run reports, a call of ask_assistant retrieves
\* the status at most 120 / 4 times.
C16_RetrievalsBounded ==
    \A t \in DOMAIN runs : runs[t].polls <= MAX_WAIT_SECONDS \div SLEEP

\* C17: a call whose append of the user turn was rejected because a run is
\* active on the conversation has waited for that run or has appended a
\* second time before it returns a fallback.
C17_ConflictWaitsAndRetries ==
    \A t \in DOMAIN runs :
        (runs[t].conflict /\ runs[t].pc = "returned")
            => (runs[t].appends = 2 \/ runs[t].polls >= 1 \/ runs[t].waited > 0)

\* The ways ask_assistant returns without a text of the assistant: the run
\* failed, expired or was cancelled, polling ran out of time, or a call to the
\* provider raised.
FailureExits == {"failed", "timeout", "append", "create", "retrieve", "submit"}

GaveUp(t) ==
    /\ t \in DOMAIN runs
    /\ runs[t].pc = "returned"
    /\ \/ runs[t].exit \in FailureExits
       \/ runs[t].exit = "completed" /\ ~runs[t].listed.ok

Ids(seq) == [i \in DOMAIN seq |-> seq[i].id]

\* C19: while the tool calls of a requires_action are run, the outputs
\* gathered are those of the calls run so far, one each and in their order;
\* each requires_action is answered by one submission, which holds one output
\* per pending call, in order; and the status of the run is not retrieved
\* between the first execution and the submission.
C19_OneBatchPerRound ==
    /\ [](\A t \in DOMAIN runs :
             /\ runs[t].pc = "tools" =>
                   /\ runs[t].rounds = runs[t].seen - 1
                   /\ runs[t].execs <= Len(runs[t].pending)
                   /\ Ids(runs[t].outputs) = Ids(SubSeq(runs[t].pending, 1, runs[t].execs))
             /\ runs[t].pc # "tools" =>
                   /\ runs[t].rounds = runs[t].seen
                   /\ Ids(runs[t].submitted) = Ids(runs[t].pending))
    /\ [][\A t \in DOMAIN runs :
             /\ runs'[t].polls # runs[t].polls => runs[t].pc = "poll"
             /\ runs'[t].rounds # runs[t].rounds => runs[t].execs = Len(runs[t].pending)]_vars

\* Two tool calls were run and their two outputs submitted in one batch, after
\* which polling resumed.
C19_Witness ==
    \E t \in DOMAIN runs :
        /\ runs[t].pc = "poll"
        /\ runs[t].rounds = 1
        /\ Len(runs[t].pending) = 2
        /\ Ids(runs[t].submitted) = <<"call_1", "call_2">>

\* The step in which ask_assistant, called by task t, runs its next tool call.
ToolStep(t) ==
    /\ t \in DOMAIN runs
    /\ runs[t].pc = "tools"
    /\ runs'[t].execs = runs[t].execs + 1

\* The tool call run by that step fails: a gateway call it makes fails, its
\* arguments are not a JSON object, or its name is not one of the tools.
ToolFails(t) ==
    LET call == runs[t].pending[runs[t].execs + 1]
    IN  \/ \E i \in DOMAIN NewSends(t) : ~NewSends(t)[i].ok
        \/ call.args.json # "object"
        \/ call.name \notin ToolNames

\* C20: a tool call that fails is reported to the run as failed, in the batch
\* of its round, and the calls after it are still run.
C20_ToolFailureReported ==
    [][\A t \in DOMAIN tasks :
          (ToolStep(t) /\ ToolFails(t))
              => /\ Len(runs'[t].outputs) = runs'[t].execs
                 /\ runs'[t].outputs[runs'[t].execs].output = "error"
                 /\ runs'[t].pc = "tools"]_vars

Answer == responses'[Len(responses')]

\* The step is webhook_post handling the request.
Handles(request) == Len(responses') = Len(responses) + 1 /\ WebhookPost(request)

\* The request carries the configured token.
TokenMatches(request) ==
    LET given == SelectSeq(<<request.header, request.query, request.hub>>,
                           LAMBDA token : token # "")
    IN  given # <<>> /\ given[1] = WEBHOOK_VERIFY_TOKEN

\* C22: every request that carries the configured token is answered with a
\* success status, whatever its payload.
C22_AlwaysSuccess ==
    [][\A request \in Requests :
          (TokenMatches(request) /\ Handles(request)) => Answer.status = 200]_vars

\* C23: a request whose token is not the configured one is answered 403 and
\* changes nothing: no user row is created or updated, no row is written to
\* the log, no pipeline is started and no lock is touched.
C23_MismatchRejected ==
    [][\A request \in Requests :
          (~TokenMatches(request) /\ Handles(request))
              => /\ Answer.status = 403
                 /\ UNCHANGED <<users, messages, tasks, USER_LOCKS, outbox, runs>>]_vars

\* A request was rejected after another one had been accepted and its
\* pipeline started.
C23_Witness ==
    /\ Len(responses) = 2
    /\ responses[1].status = 200
    /\ responses[2].status = 403
    /\ Len(tasks) = 1
    /\ Len(users) = 1

\* The request carries the token, its body is a JSON object that is not an
\* echo of a message of the assistant, and the extraction gives no phone.
NoParticipant(request) ==
    /\ TokenMatches(request)
    /\ request.payload.json = "object"
    /\ ~request.payload.fromMe
    /\ ExtractSenderAndType(request.payload).phone = ""

\* C24: a request from whose payload no participant is extracted is answered
\* 200 and changes nothing: no user row, no row in the log, no pipeline.
C24_NoParticipantNoEffect ==
    [][\A request \in Requests :
          (NoParticipant(request) /\ Handles(request))
              => /\ Answer = Response(200, "no phone")
                 /\ UNCHANGED <<users, messages, tasks, USER_LOCKS, outbox, runs>>]_vars

\* Two requests without participant were answered "no phone" and the tables
\* are still empty.
C24_Witness ==
    /\ Len(responses) = 2
    /\ \A i \in DOMAIN responses : responses[i] = Response(200, "no phone")
    /\ users = <<>>
    /\ messages = <<>>
    /\ tasks = <<>>

\* C25: whatever the pipeline of an event is doing (waiting for the lock,
\* holding it, waiting for the Assistant), the handler can accept and answer
\* one more event of the same participant; and the step that accepts an
\* event writes the inbound row, creates the pipeline waiting for its lock
\* and answers, without taking a lock, without a gateway call and without a
\* step of any pipeline or call of the Assistant.
C25_AckDecoupled ==
    /\ [](\A t \in DOMAIN tasks :
             ENABLED Webhook(tasks[t].phone, tasks[t].msg_type, tasks[t].text, None))
    /\ [][\A request \in Requests :
             (Handles(request) /\ Answer = Response(200, ""))
                 => /\ Len(tasks') = Len(tasks) + 1
                    /\ tasks'[Len(tasks')].pc = "queued"
                    /\ \A t \in DOMAIN tasks : tasks'[t] = tasks[t]
                    /\ outbox' = Append(outbox, <<>>)
                    /\ \E u \in DOMAIN messages' :
                          /\ Len(messages'[u]) = (IF u \in DOMAIN messages
                                                  THEN Len(messages[u]) ELSE 0) + 1
                          /\ messages'[u][Len(messages'[u])].sender = "user"
                    /\ UNCHANGED <<USER_LOCKS, runs>>]_vars

\* The second event of a participant was accepted and answered while the
\* pipeline of the first holds the lock and waits for the Assistant.
C25_Witness ==
    /\ Len(responses) = 2
    /\ Len(tasks) = 2
    /\ responses[2] = Response(200, "")
    /\ tasks[1].phone = tasks[2].phone
    /\ tasks[1].pc = "ai"
    /\ tasks[2].pc = "queued"

\* The request carries the token and its body is parsed JSON that is not an
\* echo of a message of the assistant: the handler calls the extraction.
Extracts(request) ==
    /\ TokenMatches(request)
    /\ request.payload.json # "invalid"
    /\ ~IsFromMe(request.payload)

\* C26: for every parsed JSON value the handler passes to it, an object or
\* not, with fields of the expected type or not, _extract_sender_and_type
\* returns (a phone or none) and does not raise.
C26_NormalizerTotal ==
    [][\A request \in Requests :
          (Extracts(request) /\ Handles(request))
              => ~ExtractSenderAndType(request.payload).raises]_vars

\* Every string of the payload that holds a digit carries the group suffix:
\* the payload names no chat but group chats.
OnlyGroupIds(event) ==
    /\ event.json = "object"
    /\ \A i \in DOMAIN Values(event) :
          (Values(event)[i].type = "str" /\ SumLen(DigitsOf(Values(event)[i].v)) > 0)
              => Has(Values(event)[i].v, {GroupSuffix})

\* C27: the extraction gives no phone for a payload whose only identifiers
\* are group-chat identifiers, whichever path looks at them (the structured
\* paths, the top-level keys, the scan), and a phone it gives has at least
\* 10 digits; the handler then answers "no phone" and starts nothing.
C27_NoGroupIdentifier ==
    [][\A request \in Requests :
          (Extracts(request) /\ Handles(request))
              => /\ OnlyGroupIds(request.payload)
                    => /\ ExtractSenderAndType(request.payload).phone = ""
                       /\ Answer = Response(200, "no phone")
                 /\ ExtractSenderAndType(request.payload).phone # ""
                    => SumLen(DigitsOf(Candidate(request.payload))) >= 10]_vars

\* The reply asks for nothing: no tag, no tool name, no invitation, no
\* announcement of a handoff, and it is not empty.
NoAction(reply) ==
    /\ ~ParseToolHints(reply).wants_menu
    /\ ~ParseToolHints(reply).wants_video
    /\ ~ParseToolHints(reply).wants_handoff
    /\ ~LooksLikeInvite(reply)
    /\ StripToolTags(reply) # <<>>

\* The pipeline of task t handles a text of a participant to whom nothing
\* was sent before it, and the Assistant ran no tool and returns reply.
PassesThrough(t, reply, g) ==
    /\ Finish(t, reply, g)
    /\ tasks[t].msg_type = "text"
    /\ tasks[t].rounds = 0
    /\ NoAction(reply)
    /\ Len(SelectSeq(messages[tasks[t].user_id], LAMBDA row : row.sender = "assistant"))
          = Len(tasks[t].rows)

\* What the pass-through scenario promises of the step that ends the
\* pipeline: one call of the Assistant, one gateway call, a text with the
\* reply, and one row written by the pipeline, the reply.
OneCallOneSendOneRow(t, reply, g) ==
    /\ tasks'[t].ai = 1
    /\ outbox'[t] = <<Send(tasks[t].phone, "text", reply, g[1], t)>>
    /\ tasks'[t].rows = <<"text">>
    /\ messages'[tasks[t].user_id] =
          Append(messages[tasks[t].user_id], Row(tasks[t].user_id, "assistant", reply, "text"))

\* C28 as stated: for every text of a participant without funnel state whose
\* reply asks for nothing, the Assistant is called once, one text with the
\* reply is sent and one outbound row is appended.
C28_PassThroughAnyText ==
    [][\A t \in DOMAIN tasks, reply \in PassReplies, g \in GatewayOutcomes :
          PassesThrough(t, reply, g) => OneCallOneSendOneRow(t, reply, g)]_vars

\* C28, amended: the same for a text that names no video format and, when no
\* name is on file, introduces none.
C28_PassThrough ==
    [][\A t \in DOMAIN tasks, reply \in PassReplies, g \in GatewayOutcomes :
          (/\ PassesThrough(t, reply, g)
           /\ ExtractFormato(tasks[t].text) = None
           /\ "name_captured" \notin Range(tasks[t].rows))
              => OneCallOneSendOneRow(t, reply, g)]_vars

\* A greeting went through: the Assistant was called once, its text was
\* handed to the gateway, which failed, and the row was written all the same.
C28_Witness ==
    \E t \in DOMAIN tasks :
        /\ tasks[t].pc = "done"
        /\ tasks[t].text = <<"oi">>
        /\ tasks[t].ai = 1
        /\ tasks[t].rows = <<"text">>
        /\ outbox[t] = <<Send(tasks[t].phone, "text", <<"Olá">>, FALSE, t)>>
        /\ messages[tasks[t].user_id][Len(messages[tasks[t].user_id])]
              = Row(tasks[t].user_id, "assistant", <<"Olá">>, "text")

\* Some gateway call of the sequence o failed.
SomeFailed(o) == \E i \in DOMAIN o : ~o[i].ok

\* C29: a step of a pipeline in which a gateway call fails makes no call
\* twice, and either ends the pipeline with the lock released or is a tool
\* call inside ask_assistant, which goes on; a pipeline that ended does not
\* hold the lock; and every event accepted is processed to its end, however
\* many gateway calls fail, so a later event of the participant gets the lock.
C29_FailureSwallowed ==
    /\ [][\A t \in DOMAIN tasks :
             SomeFailed(NewSends(t))
                 => /\ \A i, j \in DOMAIN NewSends(t) :
                          i # j => NewSends(t)[i] # NewSends(t)[j]
                    /\ \/ tasks[t].pc = "ai" /\ tasks'[t].pc = "ai"
                       \/ /\ tasks'[t].pc = "done"
                          /\ USER_LOCKS'[LockKey(tasks[t].phone)] = 0]_vars
    /\ [](\A t \in DOMAIN tasks :
             tasks[t].pc = "done" => LockHolder(LockKey(tasks[t].phone)) # t)
    /\ \A t \in 1..MaxLive :
          (t \in DOMAIN tasks) ~> (t \in DOMAIN tasks /\ tasks[t].pc = "done")

\* The pipeline of an event ended after a gateway call of it had failed, and
\* the pipeline of a later event of the same participant ran to its end.
C29_Witness ==
    \E t1, t2 \in DOMAIN tasks :
        /\ t1 < t2
        /\ tasks[t1].phone = tasks[t2].phone
        /\ SomeFailed(outbox[t1])
        /\ tasks[t1].pc = "done"
        /\ tasks[t2].pc = "done"
        /\ outbox[t2] # <<>>

\* Task t is dispatched for a text that the sanitizer rejects as a name,
\* while a name request is inside the window and no handoff (and no menu,
\* whose rules come first) is.
RejectedWhileAwaitingName(t) ==
    /\ Dispatched(t)
    /\ tasks[t].msg_type = "text"
    /\ ExtractNameFromText(tasks[t].text, TRUE) = None
    /\ SentWithin(UserIdOf(tasks[t].phone), "name_request", WindowSeconds)
    /\ ~SentWithin(UserIdOf(tasks[t].phone), "handoff", WindowSeconds)
    /\ ~SentWithin(UserIdOf(tasks[t].phone), "menu", WindowSeconds)

ValidId(val) ==
    /\ val.type = "str"
    /\ ~Has(val.v, {GroupSuffix})
    /\ Has(val.v, ChatSuffixes)
    /\ SumLen(DigitsOf(BeforeAt(val.v))) >= 10

\* The fields of the payload that hold such an identifier, in the order in
\* which the extraction looks at them.
ValidFields(event) ==
    SelectSeq(<<event.remoteJid, event.participant, event.chatId>>, ValidId)

\* C31: when a field tried first holds a value that is too short or
\* otherwise invalid, it is skipped, and the first field that holds a valid
\* identifier gives the participant.
C31_LaterCandidateAccepted ==
    [][\A request \in Requests :
          (/\ Extracts(request)
           /\ Handles(request)
           /\ request.payload.json = "object"
           /\ ValidFields(request.payload) # <<>>)
              => ExtractSenderAndType(request.payload).phone
                    = Joined(DigitsOf(BeforeAt(ValidFields(request.payload)[1].v)))]_vars

\* C32: with a secret configured, a request is let through if and only if
\* the first token it carries, in the order header, token, hub.verify_token,
\* is the secret; a request without token is rejected, and a right token in
\* the query does not make up for a wrong one in the header.  With no
\* secret configured every request is let through.
C32_TokenCheck ==
    /\ \A request \in Requests : EnsureAuthorised("", request)
    /\ [][\A request \in Requests :
             Handles(request) => (Answer.status # 403 <=> TokenMatches(request))]_vars

\* A request was rejected and the next one was accepted and its pipeline
\* started.
C32_Witness ==
    /\ Len(responses) = 2
    /\ responses[1].status = 403
    /\ responses[2] = Response(200, "")
    /\ Len(tasks) = 1

\* C34: a request with the token whose payload is marked as sent by the bot
\* (key.fromMe = true in the message record, wherever the record sits) is
\* answered 200 "from_me" and changes nothing: no user, no row in the log,
\* no pipeline, no gateway call.
C34_OwnEchoIgnored ==
    [][\A request \in Requests :
          (/\ TokenMatches(request)
           /\ Handles(request)
           /\ request.payload.json = "object"
           /\ request.payload.fromMe)
              => /\ Answer = Response(200, "from_me")
                 /\ UNCHANGED <<users, messages, tasks, USER_LOCKS, outbox, runs>>]_vars

\* The kinds of the rows that the step of task t appends to the log.
NewKinds(t) ==
    Range(SubSeq(tasks'[t].rows, Len(tasks[t].rows) + 1, Len(tasks'[t].rows)))

\* C33: a step of the dispatcher appends no handoff, no handoff offer and no
\* name request for a participant whose consultants were notified inside the
\* window, and no handoff offer for a participant to whom an offer was made
\* inside the window.
C33_HandoffOncePerWindow ==
    [][\A t \in DOMAIN tasks :
          (Dispatched(t) \/ PostAIStep(t))
              => /\ SentWithin(UserIdOf(tasks[t].phone), "handoff", WindowSeconds)
                       => NewKinds(t) \cap {"handoff", "handoff_offer", "name_request"} = {}
                 /\ SentWithin(UserIdOf(tasks[t].phone), "handoff_offer", WindowSeconds)
                       => "handoff_offer" \notin NewKinds(t)]_vars

\* The request or pipeline of task r wrote its inbound row.
Persisted(r) == tasks[r].pc \in {"queued", "locked", "ai", "done"}

\* The handlers of the requests r1 and r2 ran at the same time, for the same
\* participant and the same (text, kind).
ConcurrentTwins(r1, r2) ==
    /\ r1 \in tasks[r2].during
    /\ tasks[r1].phone = tasks[r2].phone
    /\ tasks[r1].text = tasks[r2].text
    /\ tasks[r1].msg_type = tasks[r2].msg_type

\* C35: of two requests with the same (text, kind) of one participant that
\* are handled concurrently, at most one writes an inbound row and starts a
\* pipeline.
C35_DuplicateUnderInterleaving ==
    \A r1, r2 \in DOMAIN tasks :
        ConcurrentTwins(r1, r2) => ~(Persisted(r1) /\ Persisted(r2))

\* C40: the table of users never holds two rows for one phone, and every
\* request is answered with success, also when the first requests of a
\* participant are handled concurrently.
C40_UserCreationRaceFree ==
    /\ \A i, j \in DOMAIN users : users[i].phone = users[j].phone => i = j
    /\ \A i \in DOMAIN responses : responses[i].status = 200
    /\ \A r \in DOMAIN tasks : tasks[r].pc # "failed"

\* The statuses in which a run is over.
TerminalStatuses == {"completed"} \cup FailedStatuses

\* The call of ask_assistant of task t created a run.
StartedRun(t) == t \in DOMAIN runs /\ runs[t].exit \notin {"", "config", "append", "create"}

\* C36: when ask_assistant has returned, the run it created is in a terminal
\* status (completed, failed, expired or cancelled), whatever made it return.
C36_RunTerminalOnReturn ==
    \A t \in DOMAIN runs :
        (runs[t].pc = "returned" /\ StartedRun(t)) => runs[t].status \in TerminalStatuses

\* The kinds of the outbound rows that stand for something sent.
DeliveryKinds == {"text", "menu", "video", "handoff", "handoff_offer", "name_request"}

\* C37: a step of a pipeline in which every send to the gateway failed
\* appends no outbound row (text, menu, video, handoff, handoff_offer,
\* name_request) to the history of the participant.
C37_HistoryOnlyDelivered ==
    [][\A t \in DOMAIN tasks :
          (NewSends(t) # <<>> /\ \A i \in DOMAIN NewSends(t) : ~NewSends(t)[i].ok)
              => NewKinds(t) \cap DeliveryKinds = {}]_vars

\* C38: a menu or a video sent while the pipeline of a participant runs is
\* addressed to that participant, whatever "phone" the tool call carries.
C38_ToolSendsToOwnParticipant ==
    \A t \in DOMAIN tasks :
        \A i \in DOMAIN outbox[t] :
            outbox[t][i].type \in {"menu", "media"} => outbox[t][i].to = tasks[t].phone

\* The positions of the sends of task t that delivered something of a type.
DeliveredOf(t, type) == {i \in DOMAIN outbox[t] : outbox[t][i].type = type /\ outbox[t][i].ok}

\* C39: one pipeline delivers the video at most once, the tool call of the
\* AI run and the handling of the reply taken together, and a pipeline that
\* is over and delivered it has written a row of kind video.
C39_ActionOncePerPipeline ==
    \A t \in DOMAIN tasks :
        /\ Cardinality(DeliveredOf(t, "media")) <= 1
        /\ (tasks[t].pc = "done" /\ DeliveredOf(t, "media") # {})
               => "video" \in Range(tasks[t].rows)

=============================================================================
